---- MODULE Spec2Model ----
(***************************************************************************)
(* Model of the UV mapper of src/src/Misc/uvMapper.ts: UvMapper.map, with  *)
(* the Face builder, removeDoubles, the projection grouper, getUvIslands,  *)
(* optiRotateUvIsland, packIslands, BoxPacker.BoxPack2d and the seam       *)
(* resolver.                                                               *)
(*                                                                         *)
(* Numbers.  The program computes in floating point; the model computes in *)
(* exact arithmetic on integers.  A length r of the program is the integer *)
(* r * Unit, an area a is a * Unit * Unit, and the components of a unit    *)
(* vector are integers (the input meshes have axis-aligned or zero-area    *)
(* triangles, so every normal is an axis or undefined).  The smallest      *)
(* length the program distinguishes, SMALL_NUM, is one unit of the model.  *)
(* A UV coordinate is a record [x, y, d]: after d scalings by the packing  *)
(* factor Unit / packMax its value is x / packMax^d (d = 0: x / Unit).     *)
(***************************************************************************)
EXTENDS Integers, Sequences, FiniteSets, TLC

\* Resolution of the model: mesh coordinates are multiples of Unit.
Unit == 4
\* Largest number of meshes handed to map.
MaxMeshes == 2

\* const SMALL_NUM = 1e-12 (in units of 1 / Unit).
SMALL_NUM == 1
\* const PRECISION = 1e-12 of removeDoubles: the step of the grid that
\* positions are rounded to.
PRECISION == 2
\* const USER_ISLAND_MARGIN = 0.
USER_ISLAND_MARGIN == 0
\* const USER_FILL_HOLES = 0.
USER_FILL_HOLES == 0
\* Math.cos(89 * PI / 180) and Math.cos(89 / 2 * PI / 180), times CosScale.
CosScale == 10000
USER_PROJECTION_LIMIT_CONVERTED == 175
USER_PROJECTION_LIMIT_HALF_CONVERTED == 7133

----------------------------------------------------------------------------
(* Arithmetic helpers *)

\* The element of a one-element set.  The({e : x \in {d}}) is e for x the
\* value of d: a local constant of the source, computed once.
The(S) == CHOOSE r \in S : TRUE

Abs(a) == IF a < 0 THEN -a ELSE a
Max(a, b) == The({IF x > y THEN x ELSE y : x \in {a}, y \in {b}})
Min(a, b) == The({IF x < y THEN x ELSE y : x \in {a}, y \in {b}})

\* Math.sqrt on the values the model can represent: perfect squares.
Sqrt(n) == CHOOSE r \in 0..n : r * r = n

\* Math.round(a / precision) * precision, roundTo of the source.
roundTo(a, precision) ==
    IF precision = 0 THEN a
    ELSE ((2 * a + precision) \div (2 * precision)) * precision

\* a to the power n.
RECURSIVE Pow(_, _)
Pow(a, n) == IF n = 0 THEN 1 ELSE a * Pow(a, n - 1)

\* 0-based element of an array.
At(arr, i) == arr[i + 1]

\* arr.splice(i, 1) of a 0-based position: the array without that element.
RemoveAt(arr, i) == [k \in 1..(Len(arr) - 1) |-> IF k <= i THEN arr[k] ELSE arr[k + 1]]

\* Vector3 operations.
Sub3(a, b) == <<a[1] - b[1], a[2] - b[2], a[3] - b[3]>>
Add3(a, b) == <<a[1] + b[1], a[2] + b[2], a[3] + b[3]>>
Scale3(a, s) == <<a[1] * s, a[2] * s, a[3] * s>>
Dot3(a, b) == a[1] * b[1] + a[2] * b[2] + a[3] * b[3]
Cross3(a, b) == <<a[2] * b[3] - a[3] * b[2],
                  a[3] * b[1] - a[1] * b[3],
                  a[1] * b[2] - a[2] * b[1]>>
Length3(a) == Sqrt(Dot3(a, a))
\* Vector3.normalize: a vector of length 0 is left as it is.
Normalize3(a) ==
    The({IF len = 0 THEN a ELSE <<a[1] \div len, a[2] \div len, a[3] \div len>> :
            len \in {Length3(a)}})

----------------------------------------------------------------------------
(* Arrays *)

\* The elements of a finite set of integers in ascending order.
RECURSIVE SortedSeq(_)
SortedSeq(S) ==
    IF S = {} THEN <<>>
    ELSE The({<<m>> \o The({SortedSeq(rest) : rest \in {S \ {m}}}) :
                 m \in {CHOOSE x \in S : \A y \in S : x <= y}})

\* Array.prototype.sort as a stable sort: keys[k] is the sort key of arr[k],
\* the result is ascending in the key, and elements with equal keys keep
\* their order.
RECURSIVE SortOrder(_, _)
SortOrder(keys, rest) ==
    IF rest = {} THEN <<>>
    ELSE The({<<m>> \o The({SortOrder(keys, others) : others \in {rest \ {m}}}) :
                 m \in {CHOOSE k \in rest :
                           \A j \in rest : keys[k] < keys[j]
                                             \/ (keys[k] = keys[j] /\ k <= j)}})

StableSort(arr, keys) ==
    The({[k \in DOMAIN arr |-> arr[order[k]]] :
            order \in {The({SortOrder(ks, DOMAIN ks) : ks \in {keys}})}})

----------------------------------------------------------------------------
(* Input meshes.  A mesh is [name, positions, indices, hasNormals, normals, *)
(* world]: positions is the vertex table (0-based vertex i is              *)
(* positions[i + 1]), indices the index buffer with 0-based vertex         *)
(* indices, hasNormals tells whether the optional normal stream is         *)
(* present and normals is that stream (one value per vertex), world is the *)
(* translation of the world matrix.  The other optional streams (tangents, *)
(* colors, uvs, skinning data) are absent from the meshes of the model.    *)

P(x, y, z) == <<x * Unit, y * Unit, z * Unit>>

NumVertices(mesh) == Len(mesh.positions)

----------------------------------------------------------------------------
(* Vertex deduplicator *)

\* The rounded position of vertex v, the key of its zMap bucket.
RoundedPosition(mesh, v) ==
    LET p == At(mesh.positions, v)
    IN  <<roundTo(p[1], PRECISION), roundTo(p[2], PRECISION), roundTo(p[3], PRECISION)>>

\* The zMap bucket of vertex v: the vertices pushed under its key, in index order.
Bucket(mesh, v) ==
    SortedSeq({w \in 0..(NumVertices(mesh) - 1) :
                  RoundedPosition(mesh, w) = RoundedPosition(mesh, v)})

\* A mapping in which only the first vertex of a bucket has a list.
ListedByFirst(mesh) ==
    [v \in 0..(NumVertices(mesh) - 1) |->
        The({IF Len(arr) > 1 /\ v = arr[1] THEN arr ELSE <<>> : arr \in {Bucket(mesh, v)}})]

\* UvMapper.removeDoubles: the equivalencies array.  <<>> is a hole of the
\* sparse array (a vertex with no coincident partner gets no entry); the
\* first vertex of a bucket lists the whole bucket, every other vertex of
\* the bucket lists itself and the first one.
removeDoubles(mesh) ==
    [v \in 0..(NumVertices(mesh) - 1) |->
        The({IF Len(arr) > 1
             THEN IF v = arr[1] THEN arr ELSE <<v, arr[1]>>
             ELSE <<>> : arr \in {Bucket(mesh, v)}})]

\* The index itself, as for an index without a list.
KeepIndex(arr, idx) == [arr |-> arr, first |-> idx]

\* sortAndGetFirst: sorts arr[idx] in place and returns its first element,
\* or idx when there is no list.  The result is [arr, first].
sortAndGetFirst(arr, idx) ==
    IF idx \in DOMAIN arr /\ Len(arr[idx]) > 0
    THEN The({[arr |-> [arr EXCEPT ![idx] = sorted], first |-> sorted[1]] :
                 sorted \in {StableSort(arr[idx], arr[idx])}})
    ELSE [arr |-> arr, first |-> idx]

----------------------------------------------------------------------------
(* Face builder *)

\* A UV that has not been scaled by the packer.
Uv0(x, y) == [x |-> x, y |-> y, d |-> 0]

\* The edge key offset + "_" + firstIndex + "_" + secondIndex.
EdgeKey(offset, a, b) == IF a > b THEN <<offset, b, a>> ELSE <<offset, a, b>>

\* new Face(indexBegin, vertexData, offset, matrix, equivalencies).  The
\* result is [face, equivalencies]: sortAndGetFirst reorders the lists.
\* vNormals starts as [] and gets one slice per corner only when the mesh
\* has normals.  The normal of a zero-area face is NaN; it is never read
\* and is given as the zero vector.
RECURSIVE FaceEdges(_, _, _, _, _, _)
FaceEdges(i, indexBegin, mesh, offset, eq, keys) ==
    IF i = 3 THEN [keys |-> keys, eq |-> eq]
    ELSE The({The({The({FaceEdges(i + 1, indexBegin, mesh, offset, r2.arr, keys1) :
                            keys1 \in {Append(keys, EdgeKey(offset, r1.first, r2.first))}}) :
                      r2 \in {sortAndGetFirst(r1.arr,
                                  At(mesh.indices, ((i + 1) % 3) + indexBegin))}}) :
                 r1 \in {sortAndGetFirst(eq, At(mesh.indices, i + indexBegin))}})

NewFace(indexBegin, mesh, offset, equivalencies) ==
    LET idx(i) == At(mesh.indices, i + indexBegin)
    IN  The({The({
            [face |-> [v |-> v,
                       uv |-> [i \in 1..3 |-> Uv0(0, 0)],
                       vNormals |-> IF mesh.hasNormals
                                    THEN [i \in 1..3 |-> At(mesh.normals, idx(i - 1))]
                                    ELSE <<>>,
                       vUv2 |-> IF Len(mesh.uvs2) > 0
                                THEN [i \in 1..3 |-> At(mesh.uvs2, idx(i - 1))]
                                ELSE <<>>,
                       edgeKeys |-> edges.keys,
                       no |-> Normalize3(faceNormal),
                       area2 |-> Length3(faceNormal),
                       index |-> indexBegin,
                       meshIndex |-> offset],
             equivalencies |-> edges.eq] :
                faceNormal \in {Cross3(Sub3(v[1].v, v[2].v), Sub3(v[3].v, v[2].v))}}) :
            v \in {[i \in 1..3 |->
                      [v |-> Add3(At(mesh.positions, idx(i - 1)), mesh.world),
                       index |-> idx(i - 1)]]},
            edges \in {FaceEdges(0, indexBegin, mesh, offset, equivalencies, <<>>)}})

\* The identity of a Face object: its mesh and its offset in the index buffer.
FaceId(f) == <<f.meshIndex, f.index>>

\* The elements of an array in reverse order.
Reverse(arr) == [k \in 1..Len(arr) |-> arr[Len(arr) + 1 - k]]

\* The elements of an array that satisfy a test given as a set of positions.
RECURSIVE Keep(_, _, _)
Keep(arr, k, S) ==
    IF k > Len(arr) THEN <<>>
    ELSE (IF k \in S THEN <<arr[k]>> ELSE <<>>) \o Keep(arr, k + 1, S)

----------------------------------------------------------------------------
(* Projection grouper (map, lines 1356-1472).  heap maps the identity of   *)
(* every Face built so far to the Face; lists of faces are lists of        *)
(* identities.                                                             *)

\* Vector3.Dot(a, b) > c / CosScale for integer dot products.
DotAbove(a, b, c) == Dot3(a, b) * CosScale > c

\* The first for loop of a round: the faces of tempMeshFaces within the half
\* limit of newProjectVec, spliced out from the highest index downwards.
GatherPositions(heap, temp, newProjectVec) ==
    {k \in 1..Len(temp) :
        DotAbove(newProjectVec, heap[temp[k]].no, USER_PROJECTION_LIMIT_HALF_CONVERTED)}

\* averageVec of the gathered faces for userAreaWeight 0 (sum of normals),
\* 1 (sum of normals scaled by the area) and any other weight (scaled by
\* area * userAreaWeight + (1 - userAreaWeight)).  The model scales by twice
\* the area in units of the model, that is by 2 * Unit * Unit times the
\* factor of the source, which normalize() undoes.
RECURSIVE AverageVec(_, _, _, _)
AverageVec(heap, list, k, userAreaWeight) ==
    IF k > Len(list) THEN <<0, 0, 0>>
    ELSE Add3(IF userAreaWeight = 0 THEN heap[list[k]].no
              ELSE IF userAreaWeight = 1
              THEN Scale3(heap[list[k]].no, heap[list[k]].area2)
              ELSE Scale3(heap[list[k]].no,
                          heap[list[k]].area2 * userAreaWeight
                          + (1 - userAreaWeight) * 2 * Unit * Unit),
              AverageVec(heap, list, k + 1, userAreaWeight))

\* The closest angle of a normal to the projection vectors, from -1.
RECURSIVE AngleDifference(_, _, _, _)
AngleDifference(no, projectVecs, j, angleDifference) ==
    IF j > Len(projectVecs) THEN angleDifference
    ELSE The({AngleDifference(no, projectVecs, j + 1,
                              IF angleDifference < angle THEN angle ELSE angleDifference) :
                 angle \in {Dot3(projectVecs[j], no)}})

\* The search for the most unique face, fIdx from the last position down to
\* the first; positions are 1-based here, mostUniqueIndex starts at the
\* first position and mostUniqueAngle at 1.
RECURSIVE MostUnique(_, _, _, _, _, _)
MostUnique(heap, temp, projectVecs, fIdx, mostUniqueIndex, mostUniqueAngle) ==
    IF fIdx = 0 THEN [index |-> mostUniqueIndex, angle |-> mostUniqueAngle]
    ELSE The({IF angleDifference < mostUniqueAngle
              THEN MostUnique(heap, temp, projectVecs, fIdx - 1, fIdx, angleDifference)
              ELSE MostUnique(heap, temp, projectVecs, fIdx - 1,
                              mostUniqueIndex, mostUniqueAngle) :
                 angleDifference \in {AngleDifference(heap[temp[fIdx]].no, projectVecs, 1, -1)}})

\* What stands for projectVecs when the while (true) loop never exits (no
\* projection vector is the zero vector).
Forever == << <<0, 0, 0>> >>

\* The while (true) loop that gathers the projection vectors.  A round that
\* neither seeds a new vector nor breaks has left tempMeshFaces without a
\* face within the half limit of newProjectVec and projectVecs empty: the
\* next round gathers nothing, finds the same averageVec and the same most
\* unique face, and so does every round after it.
RECURSIVE GatherProjectVecs(_, _, _, _, _, _)
GatherProjectVecs(heap, temp, newProjectVec, newProjectMeshFaces, projectVecs, userAreaWeight) ==
    The({The({The({The({The({
        IF mu.angle * CosScale < USER_PROJECTION_LIMIT_CONVERTED
        THEN The({GatherProjectVecs(heap, temp2, heap[temp1[mu.index]].no,
                                    <<temp1[mu.index]>>, vecs1, userAreaWeight) :
                     temp2 \in {RemoveAt(temp1, mu.index - 1)}})
        ELSE IF Len(vecs1) > 0 THEN vecs1
        ELSE Forever :
            mu \in {MostUnique(heap, temp1, vecs1, Len(temp1), 1, 1)}}) :
            vecs1 \in {IF averageVec # <<0, 0, 0>>
                       THEN Append(projectVecs, Normalize3(averageVec))
                       ELSE projectVecs}}) :
            averageVec \in {AverageVec(heap, gathered, 1, userAreaWeight)}}) :
            gathered \in {newProjectMeshFaces \o Reverse(Keep(temp, 1, hit))},
            temp1 \in {The({Keep(temp, 1, rest) : rest \in {(1..Len(temp)) \ hit}})}}) :
            hit \in {GatherPositions(heap, temp, newProjectVec)}})

\* Every face in the group of the first projection vector.
FirstGroup(fvec, projectVecs, i, bestAng, bestAngIdx) == 0

\* The loop with newAng >= bestAng: of the vectors with the largest dot the
\* one visited last wins.
RECURSIVE LastVisited(_, _, _, _, _)
LastVisited(fvec, projectVecs, i, bestAng, bestAngIdx) ==
    IF i - 1 = 0 THEN bestAngIdx
    ELSE The({IF newAng >= bestAng
              THEN LastVisited(fvec, projectVecs, i - 1, newAng, i - 1)
              ELSE LastVisited(fvec, projectVecs, i - 1, bestAng, bestAngIdx) :
                 newAng \in {Dot3(fvec, At(projectVecs, i - 1))}})

\* The group of a face: bestAngIdx (0-based), vector 0 first and then the
\* vectors from the last one down to vector 1, a strictly larger dot wins.
RECURSIVE BestAngIdx(_, _, _, _, _)
BestAngIdx(fvec, projectVecs, i, bestAng, bestAngIdx) ==
    IF i - 1 = 0 THEN bestAngIdx
    ELSE The({IF newAng > bestAng
              THEN BestAngIdx(fvec, projectVecs, i - 1, newAng, i - 1)
              ELSE BestAngIdx(fvec, projectVecs, i - 1, bestAng, bestAngIdx) :
                 newAng \in {Dot3(fvec, At(projectVecs, i - 1))}})

\* faceProjectionGroupList: the faces pushed from the last face of
\* meshFaces down to the first.
FaceProjectionGroupList(heap, meshFaces, projectVecs) ==
    LET group(f) == The({BestAngIdx(heap[f].no, projectVecs, Len(projectVecs), ang, 0) :
                            ang \in {Dot3(heap[f].no, At(projectVecs, 0))}})
    IN  The({[g \in 1..Len(projectVecs) |->
                The({Keep(back, 1, S) : S \in {{k \in 1..Len(back) : groups[k] = g - 1}}})] :
                groups \in {[k \in 1..Len(meshFaces) |->
                               group(meshFaces[Len(meshFaces) + 1 - k])]},
                back \in {Reverse(meshFaces)}})

\* projectMat: the first and second axis of the basis whose last axis is
\* the projection vector; TransformCoordinates by the transposed matrix
\* gives (v . firstAxis, v . secondAxis).
projectMat(vector) ==
    The({The({The({The({
        [firstAxis |-> firstAxis, secondAxis |-> secondAxis] :
            secondAxis \in {The({Normalize3(c) : c \in {Cross3(lastAxis, firstAxis)}})}}) :
            firstAxis \in {The({Normalize3(c) : c \in {Cross3(lastAxis, up)}})}}) :
            up \in {IF Abs(lastAxis[1]) * Unit < SMALL_NUM
                       /\ Abs(lastAxis[2]) * Unit < SMALL_NUM
                    THEN <<0, 1, 0>> ELSE <<0, 0, 1>>}}) :
            lastAxis \in {Normalize3(vector)}})

\* The uv of every face of every group set to the projection of its vertices.
ProjectFaces(heap, groups, projectVecs) ==
    [id \in DOMAIN heap |->
        IF \E g \in 1..Len(groups) : \E k \in 1..Len(groups[g]) : groups[g][k] = id
        THEN The({[heap[id] EXCEPT !.uv =
                    [k \in 1..3 |-> Uv0(Dot3(heap[id].v[k].v, mat.firstAxis),
                                        Dot3(heap[id].v[k].v, mat.secondAxis))]] :
                    mat \in {projectMat(projectVecs[
                                CHOOSE g \in 1..Len(groups) :
                                    \E k \in 1..Len(groups[g]) : groups[g][k] = id])}})
        ELSE heap[id]]

----------------------------------------------------------------------------
(* Island orientation (convexhull2d, fitAabb2d, rotateUvs,                 *)
(* optiRotateUvIsland).  A 2D point is <<x, y>>.                           *)

\* cross(a, b, o) of the source.
cross(a, b, o) == (a[1] - o[1]) * (b[2] - o[2]) - (a[2] - o[2]) * (b[1] - o[1])

\* One chain of the monotone chain: points taken in order, the last point
\* of the chain popped while cross <= 0.
RECURSIVE PopChain(_, _)
PopChain(chain, p) ==
    IF Len(chain) >= 2 /\ cross(chain[Len(chain) - 1], chain[Len(chain)], p) <= 0
    THEN The({PopChain(rest, p) : rest \in {SubSeq(chain, 1, Len(chain) - 1)}})
    ELSE chain

RECURSIVE Chain(_, _, _)
Chain(points, k, chain) ==
    IF k > Len(points) THEN chain
    ELSE The({Chain(points, k + 1, chain1) :
                 chain1 \in {Append(PopChain(chain, points[k]), points[k])}})

\* convexhull2d: the points sorted by x, then y; lower chain, then upper
\* chain, each without its last point.
convexhull2d(points) ==
    IF Len(points) < 3 THEN <<>>
    ELSE The({The({The({
            SubSeq(lower, 1, Len(lower) - 1) \o SubSeq(upper, 1, Len(upper) - 1) :
                lower \in {Chain(sorted, 1, <<>>)},
                upper \in {The({Chain(back, 1, <<>>) : back \in {Reverse(sorted)}})}}) :
                sorted \in {StableSort(byY, [k \in DOMAIN byY |-> byY[k][1]])}}) :
                byY \in {StableSort(points, [k \in DOMAIN points |-> points[k][2]])}})

\* mulV2V2Cw(mat, vec).
mulV2V2Cw(mat, vec) ==
    <<mat[1] * vec[1] + mat[2] * vec[2], mat[2] * vec[1] - mat[1] * vec[2]>>

\* An area is a fraction [n, l]; l = 0 is +Infinity.  The direction of a
\* hull edge is kept unnormalised, so the extents are scaled by its length
\* and the area by l, its squared length.
AreaLess(a, b) == IF a.l = 0 THEN FALSE ELSE IF b.l = 0 THEN TRUE ELSE a.n * b.l < b.n * a.l

\* The loop over j of fitAabb2d for one edge direction: the extents of the
\* hull in the frame of dvec, left as soon as the area exceeds areaBest.
RECURSIVE EdgeArea(_, _, _, _, _, _, _)
EdgeArea(hull, dvec, j, min, max, area, areaBest) ==
    IF j > Len(hull) THEN area
    ELSE The({The({The({
            IF AreaLess(areaBest, area1) THEN area1
            ELSE EdgeArea(hull, dvec, j + 1, min1, max1, area1, areaBest) :
                area1 \in {[n |-> (max1[1] - min1[1]) * (max1[2] - min1[2]),
                            l |-> dvec[1] * dvec[1] + dvec[2] * dvec[2]]}}) :
                min1 \in {IF j = 1 THEN tvec
                          ELSE <<Min(min[1], tvec[1]), Min(min[2], tvec[2])>>},
                max1 \in {IF j = 1 THEN tvec
                          ELSE <<Max(max[1], tvec[1]), Max(max[2], tvec[2])>>}}) :
                tvec \in {mulV2V2Cw(dvec, hull[j])}})

\* fitAabb2d: the loop over the hull edges; only an edge whose direction has
\* a positive x component is a candidate (dvec.x > 1e-6).  The result is
\* the direction of the best edge, <<0, 0>> if there was no candidate.
RECURSIVE FitEdges(_, _, _, _, _, _)
FitEdges(hull, i, iPrev, area, areaBest, dvecBest) ==
    IF i > Len(hull) THEN dvecBest
    ELSE The({IF dvec[1] > 0
              THEN The({IF AreaLess(area1, areaBest)
                        THEN FitEdges(hull, i + 1, i, area1, area1, dvec)
                        ELSE FitEdges(hull, i + 1, i, area1, areaBest, dvecBest) :
                           area1 \in {EdgeArea(hull, dvec, 1, <<0, 0>>, <<0, 0>>,
                                               area, areaBest)}})
              ELSE FitEdges(hull, i + 1, i, area, areaBest, dvecBest) :
                 dvec \in {<<hull[i][1] - hull[iPrev][1], hull[i][2] - hull[iPrev][2]>>}})

\* dvecBest when the loop over the hull edges has ended.
FitDirection(hull) ==
    LET inf == [n |-> 0, l |-> 0]
    IN  FitEdges(hull, 1, Len(hull), inf, inf, <<0, 0>>)

\* The angle of fitAabb2d as the unit vector <<cos, sin>>: atan2 of the
\* normalised best direction, or angle 0.
fitAabb2d(hull) ==
    The({IF dvecBest = <<0, 0>> THEN <<1, 0>>
         ELSE The({<<dvecBest[1] \div len, dvecBest[2] \div len>> :
                      len \in {Sqrt(dvecBest[1] * dvecBest[1]
                                    + dvecBest[2] * dvecBest[2])}}) :
            dvecBest \in {FitDirection(hull)}})

boxFit2D(points) == The({fitAabb2d(hull) : hull \in {convexhull2d(points)}})

\* rotateUvs: Matrix.RotationZ(-angle) applied to a uv, the angle given as
\* <<cos, sin>>.
rotateUv(uv, angle) ==
    [uv EXCEPT !.x = uv.x * angle[1] + uv.y * angle[2],
               !.y = uv.y * angle[1] - uv.x * angle[2]]

\* The identity standing for faces[0] of an empty face list (undefined).
Undefined == <<-1, -1>>

\* boundsIslands on unscaled uvs: [minx, miny, maxx, maxy].
boundsIslands0(heap, faces) ==
    The({[minx |-> CHOOSE x \in xs : \A o \in xs : x <= o,
          miny |-> CHOOSE y \in ys : \A o \in ys : y <= o,
          maxx |-> CHOOSE x \in xs : \A o \in xs : x >= o,
          maxy |-> CHOOSE y \in ys : \A o \in ys : y >= o] :
            xs \in {{heap[faces[i]].uv[j].x : i \in 1..Len(faces), j \in 1..3}},
            ys \in {{heap[faces[i]].uv[j].y : i \in 1..Len(faces), j \in 1..3}}})

\* The faces of a list rotated in the heap.
RotateFaces(heap, faces, angle) ==
    [id \in DOMAIN heap |->
        IF \E i \in 1..Len(faces) : faces[i] = id
        THEN [heap[id] EXCEPT !.uv = [k \in 1..3 |-> rotateUv(heap[id].uv[k], angle)]]
        ELSE heap[id]]

\* optiRotateUvIsland: rotate by the fitted angle, then by 90 degrees when
\* the island is wider than tall (h + 1e-5 < w; w and h are multiples of
\* 1 / Unit here).  The result is the heap.
optiRotateUvIsland(heap, faces) ==
    The({The({The({The({
        LET w == b.maxx - b.minx
            h == b.maxy - b.miny
        IN  IF h < w THEN RotateFaces(heap1, faces, <<0, 1>>) ELSE heap1 :
            b \in {boundsIslands0(heap1, faces)}}) :
            heap1 \in {IF angle # <<1, 0>> THEN RotateFaces(heap, faces, angle) ELSE heap}}) :
            angle \in {boxFit2D(uvPoints)}}) :
            uvPoints \in {[p \in 1..(3 * Len(faces)) |->
                             LET uv == heap[faces[((p - 1) \div 3) + 1]].uv[((p - 1) % 3) + 1]
                             IN  <<uv.x, uv.y>>]}})

----------------------------------------------------------------------------
(* Island builder (getUvIslands) *)

\* Every face of the list a user of every edge key.
AllUsers(heap, faces, edKey, i) == [k \in 1..Len(faces) |-> k - 1]

\* edgeUsers[edKey]: the 0-based positions of the faces that pushed edKey,
\* one entry per edge of a face that carries the key.
RECURSIVE EdgeUsers(_, _, _, _)
EdgeUsers(heap, faces, edKey, i) ==
    IF i >= Len(faces) THEN <<>>
    ELSE [j \in 1..Cardinality({j \in 1..3 : heap[At(faces, i)].edgeKeys[j] = edKey}) |-> i]
         \o EdgeUsers(heap, faces, edKey, i + 1)

\* The loops over j and k for the face at position i: every user ii of one
\* of its edge keys that is still in mode 0 is put in mode 1 and pushed.
RECURSIVE VisitUsers(_, _, _, _, _)
VisitUsers(faces, i, users, k, st) ==
    IF k > Len(users) THEN st
    ELSE LET ii == users[k]
         IN  IF i # ii /\ st.faceModes[ii + 1] = 0
             THEN The({VisitUsers(faces, i, users, k + 1, st1) :
                          st1 \in {[faceModes |-> [st.faceModes EXCEPT ![ii + 1] = 1],
                                    newIsland |-> Append(st.newIsland, At(faces, ii)),
                                    ok |-> TRUE]}})
             ELSE VisitUsers(faces, i, users, k + 1, st)

\* One pass of the for loop over i inside while (ok).
RECURSIVE FloodPass(_, _, _, _)
FloodPass(heap, faces, i, st) ==
    IF i >= Len(faces) THEN st
    ELSE IF st.faceModes[i + 1] = 1
    THEN The({The({The({
            The({FloodPass(heap, faces, i + 1, st2) :
                    st2 \in {[st1 EXCEPT !.faceModes = [st1.faceModes EXCEPT ![i + 1] = 2]]}}) :
                st1 \in {VisitUsers(faces, i, users, 1, st)}}) :
                users \in {EdgeUsers(heap, faces, keys[1], 0)
                           \o EdgeUsers(heap, faces, keys[2], 0)
                           \o EdgeUsers(heap, faces, keys[3], 0)}}) :
                keys \in {heap[At(faces, i)].edgeKeys}})
    ELSE FloodPass(heap, faces, i + 1, st)

\* The inner while (ok): passes until a pass marks no face.
RECURSIVE Flood(_, _, _)
Flood(heap, faces, st) ==
    The({IF st1.ok THEN Flood(heap, faces, st1) ELSE st1 :
            st1 \in {The({FloodPass(heap, faces, 0, st0) :
                             st0 \in {[st EXCEPT !.ok = FALSE]}})}})

\* The outer while (ok) for one face list: an island is pushed after each
\* flood fill, then the first face still in mode 0 seeds the next one.  The
\* result is [islandList, faceModes].
RECURSIVE BuildIslands(_, _, _, _)
BuildIslands(heap, faces, st, islandList) ==
    The({The({
        IF unseen = {} THEN [islandList |-> islands1, faceModes |-> st1.faceModes]
        ELSE The({The({BuildIslands(heap, faces, st2, islands1) :
                          st2 \in {[faceModes |-> [st1.faceModes EXCEPT ![i + 1] = 1],
                                    newIsland |-> <<At(faces, i)>>,
                                    ok |-> TRUE]}}) :
                     i \in {CHOOSE i \in unseen : \A o \in unseen : i <= o}}) :
            islands1 \in {Append(islandList, st1.newIsland)},
            unseen \in {{i \in 0..(Len(faces) - 1) : st1.faceModes[i + 1] = 0}}}) :
            st1 \in {Flood(heap, faces, st)}})

\* One round of the while (faceGroupIdx) loop: faces is the group followed
\* by deletedFaces.  faceModes[0] = 1 has no effect on an empty array and
\* faces[0] is then undefined.  The result is [islandList, faceModes].
GroupFlood(heap, group, deletedFaces) ==
    The({The({BuildIslands(heap, faces, st, <<>>) :
                 st \in {[faceModes |-> [k \in 1..Len(faces) |-> IF k = 1 THEN 1 ELSE 0],
                          newIsland |-> <<IF Len(faces) > 0 THEN faces[1] ELSE Undefined>>,
                          ok |-> TRUE]}}) :
            faces \in {group \o deletedFaces}})

\* One island of the deleted faces, and no island for the group.
DeletedOnly(heap, group, deletedFaces) ==
    IF Len(deletedFaces) = 0 THEN <<>> ELSE <<deletedFaces>>

\* The islands pushed on islandList for one face group.
GroupIslands(heap, group, deletedFaces) ==
    The({r.islandList : r \in {GroupFlood(heap, group, deletedFaces)}})

\* The while (faceGroupIdx) loop: the groups from the last one to the first.
RECURSIVE AllGroupIslands(_, _, _, _)
AllGroupIslands(heap, faceGroups, deletedFaces, faceGroupIdx) ==
    IF faceGroupIdx = 0 THEN <<>>
    ELSE The({GroupIslands(heap, group, deletedFaces) :
                 group \in {At(faceGroups, faceGroupIdx - 1)}})
         \o AllGroupIslands(heap, faceGroups, deletedFaces, faceGroupIdx - 1)

\* The final for loop of getUvIslands: every island oriented in turn.  An
\* island that holds undefined makes optiRotateUvIsland throw.
RECURSIVE RotateIslands(_, _, _)
RotateIslands(heap, islandList, i) ==
    IF i > Len(islandList) THEN [heap |-> heap, threw |-> FALSE]
    ELSE IF \E k \in 1..Len(islandList[i]) : islandList[i][k] = Undefined
    THEN [heap |-> heap, threw |-> TRUE]
    ELSE The({RotateIslands(heap1, islandList, i + 1) :
                 heap1 \in {optiRotateUvIsland(heap, islandList[i])}})

\* getUvIslands(faceGroups, deletedFaces): [islandList, heap, threw].
getUvIslands(heap, faceGroups, deletedFaces) ==
    The({The({[islandList |-> islandList, heap |-> rotated.heap, threw |-> rotated.threw] :
                 rotated \in {RotateIslands(heap, islandList, 1)}}) :
            islandList \in {AllGroupIslands(heap, faceGroups, deletedFaces,
                                            Len(faceGroups))}})

----------------------------------------------------------------------------
(* Box packer (BoxPacker.BoxPack2d).  A box is [x, y, w, h, islandIdx]; a  *)
(* free space is [x, y, w, h, unbounded], where unbounded stands for       *)
(* h = Infinity (h itself is then not read).                               *)

\* Math.ceil(Math.sqrt(area / 0.95)) as a length of the model: the least
\* whole number c of program units with 0.95 * c * c >= area.
CeilSqrtArea(area) ==
    Unit * (CHOOSE c \in 0..(area + 1) :
                /\ 95 * c * c * Unit * Unit >= 100 * area
                /\ \A b \in 0..(c - 1) : 95 * b * b * Unit * Unit < 100 * area)

RECURSIVE SumArea(_, _)
SumArea(boxes, k) ==
    IF k > Len(boxes) THEN 0 ELSE boxes[k].w * boxes[k].h + SumArea(boxes, k + 1)

RECURSIVE MaxBoxWidth(_, _)
MaxBoxWidth(boxes, k) ==
    IF k > Len(boxes) THEN 0 ELSE Max(boxes[k].w, MaxBoxWidth(boxes, k + 1))

\* A scan that also passes over the spaces that are as wide as the box.
NoRoom(box, space) == box.w >= space.w \/ (~space.unbounded /\ box.h > space.h)

\* box.w > space.w || box.h > space.h
TooBig(box, space) == box.w > space.w \/ (~space.unbounded /\ box.h > space.h)

\* A space that keeps its height when a box is put at its top.
KeepHeight(space, box) == space.h

\* space.h - box.h; Infinity stays Infinity.
Lower(space, box) == IF space.unbounded THEN space.h ELSE space.h - box.h

\* The four ways a placed box changes the free spaces; i is the 1-based
\* position of the chosen space.
PlaceInSpace(spaces, i, box) ==
    LET space == spaces[i]
    IN  IF box.w = space.w /\ ~space.unbounded /\ box.h = space.h
        THEN \* exact fit: the last space is popped and, if the chosen one
             \* was another, takes its place
             LET popped == SubSeq(spaces, 1, Len(spaces) - 1)
             IN  IF i <= Len(popped)
                 THEN [popped EXCEPT ![i] = spaces[Len(spaces)]]
                 ELSE popped
        ELSE IF ~space.unbounded /\ box.h = space.h
        THEN [spaces EXCEPT ![i].x = space.x + box.w, ![i].w = space.w - box.w]
        ELSE IF box.w = space.w
        THEN [spaces EXCEPT ![i].y = space.y + box.h, ![i].h = Lower(space, box)]
        ELSE Append([spaces EXCEPT ![i].y = space.y + box.h, ![i].h = Lower(space, box)],
                    [x |-> space.x + box.w, y |-> space.y,
                     w |-> space.w - box.w, h |-> box.h, unbounded |-> FALSE])

\* The backward scan for one box: the 1-based position of the first space,
\* from the last one down, that can take the box; 0 if there is none.
RECURSIVE FindSpace(_, _, _)
FindSpace(spaces, i, box) ==
    IF i = 0 THEN 0
    ELSE IF TooBig(box, spaces[i]) THEN FindSpace(spaces, i - 1, box)
    ELSE i

\* One round of the loop over the sorted boxes, for the box at position k.
\* st is [boxes, spaces, width, height].  A box for which the scan finds no
\* space is left where it is.
PlaceBox(st, k) ==
    LET box == st.boxes[k]
    IN  The({IF i = 0 THEN st
             ELSE The({[boxes |-> [st.boxes EXCEPT ![k] = placed],
                        spaces |-> PlaceInSpace(st.spaces, i, placed),
                        width |-> Max(st.width, placed.x + placed.w),
                        height |-> Max(st.height, placed.y + placed.h)] :
                          placed \in {[box EXCEPT !.x = st.spaces[i].x,
                                                  !.y = st.spaces[i].y]}}) :
                i \in {FindSpace(st.spaces, Len(st.spaces), box)}})

\* The loop over the sorted boxes.
RECURSIVE PlaceBoxes(_, _)
PlaceBoxes(st, k) ==
    IF k > Len(st.boxes) THEN st
    ELSE The({PlaceBoxes(st1, k + 1) : st1 \in {PlaceBox(st, k)}})

\* BoxPack2d(boxes) before the first box is placed: the boxes sorted by
\* height, descending, and the one free space.
StartBoxPack(boxes) ==
    The({The({
        [boxes |-> sorted,
         spaces |-> <<[x |-> 0, y |-> 0, w |-> startWidth, h |-> 0, unbounded |-> TRUE]>>,
         width |-> 0, height |-> 0] :
            startWidth \in {Max(The({CeilSqrtArea(a) : a \in {area}}), maxWidth)}}) :
            area \in {SumArea(boxes, 1)},
            maxWidth \in {MaxBoxWidth(boxes, 1)},
            sorted \in {StableSort(boxes, [k \in DOMAIN boxes |-> -boxes[k].h])}})

\* BoxPack2d(boxes): [boxes, spaces, width, height].
BoxPack2d(boxes) ==
    The({PlaceBoxes(st, 1) : st \in {StartBoxPack(boxes)}})

----------------------------------------------------------------------------
(* Island packer (packIslands) *)

\* uv.x = (uv.x + xOffset) * xFactor for the factor Unit / packMax: a uv
\* scaled d times has the value x / packMax^d.
ScaleUv(uv, xOffset, yOffset, packMax) ==
    IF uv.d = 0
    THEN [x |-> uv.x + xOffset, y |-> uv.y + yOffset, d |-> 1]
    ELSE The({[x |-> uv.x * Unit + xOffset * scale,
               y |-> uv.y * Unit + yOffset * scale,
               d |-> uv.d + 1] : scale \in {Pow(packMax, uv.d)}})

\* The box of one island: its bounds, widened by the margin when
\* USER_ISLAND_MARGIN is set, and at least SMALL_NUM wide and high.
IslandBox(heap, islandList, islandIdx) ==
    The({LET
        w0 == b.maxx - b.minx
        h0 == b.maxy - b.miny
        minx == IF USER_ISLAND_MARGIN # 0 THEN b.minx - (USER_ISLAND_MARGIN * w0) \div 2 ELSE b.minx
        miny == IF USER_ISLAND_MARGIN # 0 THEN b.miny - (USER_ISLAND_MARGIN * h0) \div 2 ELSE b.miny
        maxx == IF USER_ISLAND_MARGIN # 0 THEN b.maxx + (USER_ISLAND_MARGIN * w0) \div 2 ELSE b.maxx
        maxy == IF USER_ISLAND_MARGIN # 0 THEN b.maxy + (USER_ISLAND_MARGIN * h0) \div 2 ELSE b.maxy
        w == maxx - minx
        h == maxy - miny
    IN  [offset |-> <<minx, miny>>,
         box |-> [x |-> 0, y |-> 0,
                  w |-> IF w < SMALL_NUM THEN SMALL_NUM ELSE w,
                  h |-> IF h < SMALL_NUM THEN SMALL_NUM ELSE h,
                  islandIdx |-> islandIdx]] :
            b \in {The({boundsIslands0(heap, island) :
                           island \in {At(islandList, islandIdx)}})}})

\* The faces of one island translated and scaled in the heap.
MoveIsland(heap, island, xOffset, yOffset, packMax) ==
    [id \in DOMAIN heap |->
        IF \E i \in 1..Len(island) : island[i] = id
        THEN [heap[id] EXCEPT !.uv =
                [k \in 1..3 |-> The({ScaleUv(uv, xOffset, yOffset, packMax) :
                                        uv \in {heap[id].uv[k]}})]]
        ELSE heap[id]]

\* The final loop of packIslands over the packed boxes, in their order.
RECURSIVE MoveIslands(_, _, _, _, _, _)
MoveIslands(heap, islandList, packBoxes, islandOffsetList, packMax, boxIdx) ==
    IF boxIdx >= Len(packBoxes) THEN heap
    ELSE The({The({The({
            MoveIslands(heap1, islandList, packBoxes, islandOffsetList, packMax,
                        boxIdx + 1) :
                heap1 \in {MoveIsland(heap, island, xOffset, yOffset, packMax)}}) :
                xOffset \in {box.x - At(islandOffsetList, box.islandIdx)[1]},
                yOffset \in {box.y - At(islandOffsetList, box.islandIdx)[2]},
                island \in {At(islandList, box.islandIdx)}}) :
                box \in {At(packBoxes, boxIdx)}})

\* packIslands(islandList): [heap, packBoxes, islandOffsetList, packDimension,
\* packMax]; the factor it returns is Unit / packMax (1 for no island).
\* mergeUvIslands is not called, USER_FILL_HOLES being 0.
packIslands(heap, islandList) ==
    LET n == Len(islandList)
    IN  The({The({The({
            [heap |-> MoveIslands(heap, islandList, packed.boxes, islandOffsetList,
                                  packMax, 0),
             packBoxes |-> packed.boxes,
             islandOffsetList |-> islandOffsetList,
             packDimension |-> [w |-> packed.width, h |-> packed.height],
             packMax |-> packMax] :
                packMax \in {IF n # 0 THEN Max(packed.width, packed.height) ELSE Unit},
                islandOffsetList \in {[k \in 1..n |-> boxes[k].offset]}}) :
                packed \in {The({BoxPack2d(bs) : bs \in {[k \in 1..n |-> boxes[k].box]}})}}) :
                boxes \in {[k \in 1..n |-> IslandBox(heap, islandList, k - 1)]}})

----------------------------------------------------------------------------
(* map, the part run for one mesh (lines 1319-1481) *)

\* The faces of mesh i built in index-buffer order; [ids, heap, eq].
RECURSIVE BuildFaces(_, _, _, _)
BuildFaces(mesh, i, j, st) ==
    IF j >= Len(mesh.indices) THEN st
    ELSE The({The({BuildFaces(mesh, i, j + 3, st1) :
                      st1 \in {[ids |-> Append(st.ids, FaceId(r.face)),
                                heap |-> (FaceId(r.face) :> r.face) @@ st.heap,
                                eq |-> r.equivalencies]}}) :
                 r \in {NewFace(j, mesh, i, st.eq)}})

\* face.area <= SMALL_NUM, with twice the area on the left.
IsDegenerate(f) == f.area2 <= 2 * SMALL_NUM * Unit

\* The while loop that pops the zero-area faces off the end of the sorted
\* meshFaces, sets their uvs to (0, 0) and pushes them on deletedFaces.
RECURSIVE PopDegenerate(_)
PopDegenerate(st) ==
    IF Len(st.meshFaces) > 0 /\ IsDegenerate(st.heap[st.meshFaces[Len(st.meshFaces)]])
    THEN LET id == st.meshFaces[Len(st.meshFaces)]
         IN  The({PopDegenerate(st1) :
                     st1 \in {[meshFaces |-> SubSeq(st.meshFaces, 1, Len(st.meshFaces) - 1),
                               deletedFaces |-> Append(st.deletedFaces, id),
                               heap |-> [st.heap EXCEPT
                                           ![id].uv = [k \in 1..3 |-> Uv0(0, 0)]]]}})
    ELSE st

\* The body of the loop over the meshes for mesh i (0-based).  The result
\* is [heap, deletedFaces, equivalencies, islandList, threw, reached,
\* looping, logged, projectVecs, groups]; when the mesh has no face left
\* after the zero-area faces are gone, the round ends at the continue of
\* line 1353: islandList is empty and reached, which tells whether the round
\* got to getUvIslands, is false.  looping tells that the round never leaves
\* the while (true) loop.  When the loop is left with no projection vector,
\* the round writes the line of 1430 and then reads projectVecs[0], which is
\* undefined, for the first face: Vector3.Dot throws.
MapMesh(mesh, i, heap, deletedFaces, removeDoublesOpt, userAreaWeight) ==
    The({The({The({The({
        LET meshFaces == popped.meshFaces
        IN  IF Len(meshFaces) = 0
            THEN [heap |-> popped.heap, deletedFaces |-> popped.deletedFaces,
                  equivalencies |-> built.eq, islandList |-> <<>>, threw |-> FALSE,
                  reached |-> FALSE, looping |-> FALSE, logged |-> FALSE,
                  projectVecs |-> <<>>, groups |-> <<>>]
            ELSE The({
                 IF vecs = Forever
                 THEN [heap |-> popped.heap, deletedFaces |-> popped.deletedFaces,
                       equivalencies |-> built.eq, islandList |-> <<>>, threw |-> FALSE,
                       reached |-> FALSE, looping |-> TRUE, logged |-> FALSE,
                       projectVecs |-> <<>>, groups |-> <<>>]
                 ELSE IF Len(vecs) = 0
                 THEN [heap |-> popped.heap, deletedFaces |-> popped.deletedFaces,
                       equivalencies |-> built.eq, islandList |-> <<>>, threw |-> TRUE,
                       reached |-> FALSE, looping |-> FALSE, logged |-> TRUE,
                       projectVecs |-> <<>>, groups |-> <<>>]
                 ELSE The({The({The({
                    [heap |-> islands.heap, deletedFaces |-> popped.deletedFaces,
                     equivalencies |-> built.eq, islandList |-> islands.islandList,
                     threw |-> islands.threw, reached |-> TRUE, looping |-> FALSE,
                     logged |-> FALSE, projectVecs |-> vecs, groups |-> groups] :
                        islands \in {getUvIslands(projected, groups, popped.deletedFaces)}}) :
                        projected \in {ProjectFaces(popped.heap, groups, vecs)}}) :
                        groups \in {FaceProjectionGroupList(popped.heap, meshFaces,
                                                            vecs)}}) :
                        vecs \in {GatherProjectVecs(popped.heap, meshFaces,
                                             popped.heap[meshFaces[1]].no, <<>>, <<>>,
                                             userAreaWeight)}}) :
            popped \in {PopDegenerate([meshFaces |-> sorted, deletedFaces |-> deletedFaces,
                                       heap |-> built.heap])}}) :
            sorted \in {StableSort(built.ids,
                           [k \in DOMAIN built.ids |-> -built.heap[built.ids[k]].area2])}}) :
            built \in {BuildFaces(mesh, i, 0, [ids |-> <<>>, heap |-> heap, eq |-> eq0])}}) :
            eq0 \in {IF removeDoublesOpt THEN removeDoubles(mesh)
                     ELSE [v \in 0..(NumVertices(mesh) - 1) |-> <<>>]}})

----------------------------------------------------------------------------
(* Input meshes of the model.  Vertices 0-3 are a unit square of the plane *)
(* z = 0, vertices 4 and 5 lift the edge 0-1 into the plane y = 0, vertex  *)
(* 6 coincides with vertex 0 and vertices 7 and 8 are in the plane z = 0   *)
(* beyond vertex 2.  A mesh has the first n of them.                       *)

Positions ==
    <<P(0,0,0), P(1,0,0), P(1,1,0), P(0,1,0), P(0,0,1), P(1,0,1), P(0,0,0),
      P(1,2,0), P(2,2,0)>>

Shape(n, hasNormals, indices) ==
    [n |-> n, hasNormals |-> hasNormals, indices |-> indices]

Shapes ==
    { \* no triangle at all
      Shape(3, TRUE, <<>>),
      \* two triangles of one plane that share the edge 0-2
      Shape(4, TRUE, <<0, 2, 1, 0, 3, 2>>),
      \* the same without normals
      Shape(4, FALSE, <<0, 2, 1, 0, 3, 2>>),
      \* two triangles of two planes that share vertex 0
      Shape(6, TRUE, <<0, 3, 2, 0, 5, 4>>),
      \* the same without normals
      Shape(6, FALSE, <<0, 3, 2, 0, 5, 4>>),
      \* a single zero-area triangle (all corners coincide)
      Shape(3, TRUE, <<1, 1, 1>>),
      \* a single zero-area triangle on the only vertex of the mesh
      Shape(1, TRUE, <<0, 0, 0>>),
      \* one triangle and a zero-area triangle on its edge 0-3
      \* (vertex 6 coincides with vertex 0)
      Shape(7, TRUE, <<0, 3, 2, 0, 6, 3>>),
      \* two planes and a zero-area triangle that touches neither
      Shape(7, TRUE, <<0, 3, 2, 6, 6, 6, 0, 5, 4>>),
      \* two triangles of one plane that share vertex 2 and no edge
      Shape(9, TRUE, <<0, 3, 2, 2, 7, 8>>) }

\* The normal stream: one value per vertex, told apart by the vertex.
MeshOf(name, shape) ==
    [name |-> name, hasNormals |-> shape.hasNormals, world |-> <<0, 0, 0>>,
     normals |-> IF shape.hasNormals THEN [k \in 1..shape.n |-> <<0, 0, k>>] ELSE <<>>,
     positions |-> SubSeq(Positions, 1, shape.n), indices |-> shape.indices,
     uvs2 |-> <<>>]

\* The same mesh with a second uv channel already filled, one value per
\* vertex, told apart by the vertex.
WithUvs2(mesh) ==
    [mesh EXCEPT !.uvs2 = [k \in 1..NumVertices(mesh) |-> Uv0(k, k)]]

\* The mesh lists handed to map: up to MaxMeshes meshes, named in ascending
\* or in descending order of their place in the list.
ObLists ==
    UNION {{[k \in 1..n |-> MeshOf(IF up THEN k ELSE n + 1 - k, shapes[k])] :
              shapes \in [1..n -> Shapes], up \in BOOLEAN} : n \in 0..MaxMeshes}

----------------------------------------------------------------------------
(* UvMapper.map as a state machine *)

VARIABLES
    obList,               \* the meshes, as handed in and then sorted by name
    islandMargin,         \* parameter islandMargin
    removeDoublesOpt,     \* parameter removeDoubles
    userAreaWeight,       \* parameter userAreaWeight
    pc,                   \* where map is
    i,                    \* the loop counter over the meshes
    heap,                 \* every Face built so far, by identity
    deletedFaces,         \* the zero-area faces, by identity
    equivalencies,        \* equivalencies[i] of every mesh processed so far
    collectedIslandList,  \* the islands, lists of face identities
    pack,                 \* the locals of packIslands when it returned
    packCalls,            \* how often packIslands has been called
    worldToTexelRatio,    \* the fraction [n, d]
    newUvs,               \* newUvs[mesh][vertex], 1-based
    indices,              \* the index buffers the seam resolver rewrites
    additionnalUvs,       \* per mesh, the uvs of the appended vertices
    additionnalVertices,  \* per mesh, their positions
    additionnalNormals,   \* per mesh, additionnalVertexData.normals
    additionnalUvs2,      \* per mesh, additionnalVertexData.uvs2 as pushed
    corner,               \* <<i, j, k>> of the seam resolver loops
    result,               \* per mesh, the vertex data applied to the mesh
    earlier,              \* what an earlier call of map on these meshes gave
    projectVecs,          \* projectVecs of the mesh processed last
    faceProjectionGroupList, \* faceProjectionGroupList of that mesh
    packing,              \* the locals of BoxPack2d while it places the boxes
    logged                \* how many lines map has written with console.log

vars == <<obList, islandMargin, removeDoublesOpt, userAreaWeight, pc, i, heap,
          deletedFaces, equivalencies, collectedIslandList, pack, packCalls,
          worldToTexelRatio, newUvs, indices, additionnalUvs, additionnalVertices,
          additionnalNormals, additionnalUvs2, corner, result, earlier, projectVecs,
          faceProjectionGroupList, packing, logged>>

NoPack == [packMax |-> Unit, packBoxes |-> <<>>, islandOffsetList |-> <<>>,
           packDimension |-> [w |-> 0, h |-> 0], before |-> <<>>]

\* BoxPack2d has not been called.
NoPacking == [st |-> [boxes |-> <<>>, spaces |-> <<>>, width |-> 0, height |-> 0],
              startWidth |-> 0, k |-> 1, found |-> TRUE]

\* No earlier call.
NoCall == [called |-> FALSE, reordered |-> FALSE, outcome |-> {},
           ratio |-> [n |-> 0, d |-> 1]]

\* The values of the parameter islandMargin the model calls map with.
IslandMargins == {0, 1}

Init ==
    /\ obList \in ObLists
    /\ earlier = NoCall
    /\ islandMargin \in IslandMargins
    /\ removeDoublesOpt \in BOOLEAN
    /\ userAreaWeight \in {0, 1}
    /\ pc = "sort"
    /\ i = 0
    /\ heap = <<>>
    /\ deletedFaces = <<>>
    /\ equivalencies = <<>>
    /\ collectedIslandList = <<>>
    /\ pack = NoPack
    /\ packCalls = 0
    /\ worldToTexelRatio = [n |-> 0, d |-> 1]
    /\ newUvs = <<>>
    /\ indices = <<>>
    /\ additionnalUvs = <<>>
    /\ additionnalVertices = <<>>
    /\ additionnalNormals = <<>>
    /\ additionnalUvs2 = <<>>
    /\ corner = <<0, 0, 0>>
    /\ result = <<>>
    /\ projectVecs = <<>>
    /\ faceProjectionGroupList = <<>>
    /\ packing = NoPacking
    /\ logged = 0

\* Every mesh packed on its own: the branch of map for a false USER_SHARE_SPACE.
PackPerMesh == FALSE

\* const USER_SHARE_SPACE = true.
USER_SHARE_SPACE == TRUE

\* A list left in the order it was handed in.
KeepOrder(list) == list

\* obList.sort((a, b) => a.name.localeCompare(b.name)).
SortByName(list) == StableSort(list, [k \in DOMAIN list |-> list[k].name])

SortMeshes ==
    /\ pc = "sort"
    /\ obList' = IF USER_SHARE_SPACE THEN SortByName(obList) ELSE obList
    /\ pc' = "meshes"
    /\ UNCHANGED <<removeDoublesOpt, userAreaWeight, i, heap, deletedFaces, equivalencies,
                   collectedIslandList, pack, packCalls, worldToTexelRatio, newUvs,
                   indices, additionnalUvs, additionnalVertices, additionnalNormals,
                   additionnalUvs2, corner, result, islandMargin, earlier, projectVecs,
                   faceProjectionGroupList, packing, logged>>

\* One round of the loop over the meshes.  Every mesh of the model has
\* positions, so the first continue is never taken.
ProcessMesh ==
    /\ pc = "meshes"
    /\ i < Len(obList)
    /\ \E r \in {MapMesh(At(obList, i), i, heap, deletedFaces, removeDoublesOpt,
                         userAreaWeight)} :
           /\ deletedFaces' = r.deletedFaces
           /\ equivalencies' = Append(equivalencies, r.equivalencies)
           /\ projectVecs' = r.projectVecs
           /\ logged' = IF r.logged THEN logged + 1 ELSE logged
           /\ faceProjectionGroupList' = r.groups
           /\ pc' = IF r.looping THEN "looping" ELSE IF r.threw THEN "threw" ELSE "meshes"
           /\ IF USER_SHARE_SPACE \/ r.threw \/ ~r.reached
              THEN /\ heap' = r.heap
                   /\ collectedIslandList' = collectedIslandList \o r.islandList
                   /\ UNCHANGED <<pack, packCalls, worldToTexelRatio>>
              ELSE \E p \in {packIslands(r.heap, r.islandList)} :
                   /\ heap' = p.heap
                   /\ collectedIslandList' = r.islandList
                   /\ pack' = [packMax |-> p.packMax, packBoxes |-> p.packBoxes,
                               islandOffsetList |-> p.islandOffsetList,
                               packDimension |-> p.packDimension, before |-> r.heap]
                   /\ packCalls' = packCalls + 1
                   /\ worldToTexelRatio' = [n |-> Unit, d |-> p.packMax]
    /\ i' = i + 1
    /\ UNCHANGED <<obList, removeDoublesOpt, userAreaWeight, newUvs, indices,
                   additionnalUvs, additionnalVertices, additionnalNormals,
                   additionnalUvs2, corner, result, islandMargin, earlier, packing>>

\* worldToTexelRatio = this.packIslands(collectedIslandList) after the loop,
\* then the buffers of the seam resolver (lines 1483-1505).
PackAll ==
    /\ pc = "meshes"
    /\ i = Len(obList)
    /\ IF USER_SHARE_SPACE
       THEN \E r \in {packIslands(heap, collectedIslandList)} :
               /\ heap' = r.heap
               /\ pack' = [packMax |-> r.packMax, packBoxes |-> r.packBoxes,
                           islandOffsetList |-> r.islandOffsetList,
                           packDimension |-> r.packDimension, before |-> heap]
               /\ worldToTexelRatio' = [n |-> Unit, d |-> r.packMax]
               /\ packCalls' = packCalls + 1
       ELSE UNCHANGED <<heap, pack, worldToTexelRatio, packCalls>>
    /\ newUvs' = [m \in 1..Len(obList) |->
                    [v \in 1..NumVertices(obList[m]) |->
                        [x |-> -pack'.packMax, y |-> -pack'.packMax, d |-> 1]]]
    /\ indices' = [m \in 1..Len(obList) |-> obList[m].indices]
    /\ additionnalUvs' = [m \in 1..Len(obList) |-> <<>>]
    /\ additionnalVertices' = [m \in 1..Len(obList) |-> <<>>]
    /\ additionnalNormals' = [m \in 1..Len(obList) |-> <<>>]
    /\ additionnalUvs2' = [m \in 1..Len(obList) |-> <<>>]
    /\ corner' = <<0, 0, 0>>
    /\ pc' = "seam"
    /\ UNCHANGED <<obList, removeDoublesOpt, userAreaWeight, i, deletedFaces,
                   equivalencies, collectedIslandList, result, islandMargin, earlier, projectVecs,
                   faceProjectionGroupList, packing, logged>>

----------------------------------------------------------------------------
(* Seam resolver (lines 1507-1542), one triangle corner per step *)

\* The values of two uvs scaled by the factor Unit / packMax compared.
UvScaled(uv, d, packMax) ==
    IF uv.d = 0 THEN [x |-> uv.x * Pow(packMax, d), y |-> uv.y * Pow(packMax, d)]
    ELSE [x |-> uv.x * Pow(packMax, d - uv.d), y |-> uv.y * Pow(packMax, d - uv.d)]

\* Vector2.equals.  An unscaled uv (d = 0) has the value x / Unit.
UvEquals(a, b, packMax) ==
    IF a.d = b.d THEN a.x = b.x /\ a.y = b.y
    ELSE IF a.d = 0 \/ b.d = 0
    THEN LET u == IF a.d = 0 THEN a ELSE b
             s == IF a.d = 0 THEN b ELSE a
         IN  /\ u.x * Pow(packMax, s.d) = s.x * Unit
             /\ u.y * Pow(packMax, s.d) = s.y * Unit
    ELSE \E d \in {Max(a.d, b.d)} : UvScaled(a, d, packMax) = UvScaled(b, d, packMax)

\* A search that finds nothing.
NeverFound(uvs, vertices, newUv, newPosition, packMax, h) == -1

\* The search of the side table of mesh m for an appended vertex with this
\* uv and position: its 0-based position h, or -1.
RECURSIVE FindAdditionnal(_, _, _, _, _, _)
FindAdditionnal(uvs, vertices, newUv, newPosition, packMax, h) ==
    IF h >= Len(uvs) THEN -1
    ELSE IF UvEquals(At(uvs, h), newUv, packMax) /\ At(vertices, h) = newPosition
    THEN h
    ELSE FindAdditionnal(uvs, vertices, newUv, newPosition, packMax, h + 1)

\* Face.pushVertexToVertexData throws when it reads this.vNormals[idx].length
\* and vNormals, always an array, has no slice for the corner.
PushThrows(f, idx) == idx >= Len(f.vNormals)

\* A seam index that is one too far.
SeamIndexPastEnd(index, vertexCount) == index + vertexCount + 1

\* index + vertices[f.meshIndex].length / 3: the index of the appended
\* vertex at position index of the side table.
SeamIndex(index, vertexCount) == index + vertexCount

\* newUvs[m][index * 2] < 0.  Reading a Float32Array beyond its end gives
\* undefined, and undefined < 0 is false.
Unwritten(uvs, index) == index < Len(uvs) /\ At(uvs, index).x < 0

\* The corner after <<ci, cj, ck>> in the loops over i, j and k.
NextCorner(c) ==
    IF c[3] < 2 THEN <<c[1], c[2], c[3] + 1>>
    ELSE IF c[2] + 1 < Len(At(collectedIslandList, c[1])) THEN <<c[1], c[2] + 1, 0>>
    ELSE <<c[1] + 1, 0, 0>>

ResolveCorner ==
    /\ pc = "seam"
    /\ corner[1] < Len(collectedIslandList)
    /\ LET f == heap[At(At(collectedIslandList, corner[1]), corner[2])]
           k == corner[3]
           m == f.meshIndex + 1
           index == At(indices[m], f.index + k)
           newUv == f.uv[k + 1]
           newPosition == f.v[k + 1].v
       IN  IF Unwritten(newUvs[m], index)
           THEN /\ newUvs' = [newUvs EXCEPT ![m][index + 1] = newUv]
                /\ pc' = "seam"
                /\ corner' = NextCorner(corner)
                /\ UNCHANGED <<indices, additionnalUvs, additionnalVertices,
                               additionnalNormals, additionnalUvs2>>
           ELSE \E found \in {FindAdditionnal(additionnalUvs[m], additionnalVertices[m],
                                               newUv, newPosition, pack.packMax, 0)} :
                    IF found # -1
                    THEN /\ indices' = [indices EXCEPT ![m][f.index + k + 1] =
                                            SeamIndex(found, NumVertices(obList[m]))]
                         /\ pc' = "seam"
                         /\ corner' = NextCorner(corner)
                         /\ UNCHANGED <<newUvs, additionnalUvs, additionnalVertices,
                                        additionnalNormals, additionnalUvs2>>
                    ELSE /\ additionnalUvs' = [additionnalUvs EXCEPT ![m] = Append(@, newUv)]
                         /\ additionnalVertices' =
                                [additionnalVertices EXCEPT ![m] = Append(@, newPosition)]
                         /\ IF PushThrows(f, k)
                            THEN /\ pc' = "threw"
                                 /\ UNCHANGED <<indices, additionnalNormals,
                                                additionnalUvs2, corner>>
                            ELSE /\ additionnalNormals' =
                                        [additionnalNormals EXCEPT ![m] = Append(@, f.vNormals[k + 1])]
                                 /\ additionnalUvs2' =
                                        IF Len(f.vUv2) > 0
                                        THEN [additionnalUvs2 EXCEPT ![m] = Append(@, f.vUv2[k + 1])]
                                        ELSE additionnalUvs2
                                 /\ indices' = [indices EXCEPT ![m][f.index + k + 1] =
                                        SeamIndex(Len(additionnalUvs'[m]) - 1,
                                                  NumVertices(obList[m]))]
                                 /\ pc' = "seam"
                                 /\ corner' = NextCorner(corner)
                         /\ UNCHANGED newUvs
    /\ UNCHANGED <<obList, removeDoublesOpt, userAreaWeight, i, heap, deletedFaces,
                   equivalencies, collectedIslandList, pack, packCalls,
                   worldToTexelRatio, result, islandMargin, earlier, projectVecs,
                   faceProjectionGroupList, packing, logged>>

\* The loop that adds the created vertices (lines 1544-1577) and the
\* return.  merge() of the engine appends the streams of the additional
\* vertex data; the positions go back to local space.
ApplyToMeshes ==
    /\ pc = "seam"
    /\ corner[1] >= Len(collectedIslandList)
    /\ result' = [m \in 1..Len(obList) |->
                    [indices |-> indices[m],
                     uvs2 |-> newUvs[m] \o (IF Len(additionnalUvs[m]) > 0
                                             THEN additionnalUvs[m]
                                             ELSE additionnalUvs2[m]),
                     positions |-> obList[m].positions \o
                                   [h \in 1..Len(additionnalVertices[m]) |->
                                       Sub3(additionnalVertices[m][h], obList[m].world)],
                     normals |-> obList[m].normals \o additionnalNormals[m]]]
    /\ pc' = "done"
    /\ UNCHANGED <<obList, removeDoublesOpt, userAreaWeight, i, heap, deletedFaces,
                   equivalencies, collectedIslandList, pack, packCalls,
                   worldToTexelRatio, newUvs, indices, additionnalUvs,
                   additionnalVertices, additionnalNormals, additionnalUvs2, corner,
                   islandMargin, earlier, projectVecs,
                   faceProjectionGroupList, packing, logged>>

Next == SortMeshes \/ ProcessMesh \/ PackAll \/ ResolveCorner \/ ApplyToMeshes

Spec == Init /\ [][Next]_vars

----------------------------------------------------------------------------
(* Two calls of map compared, both with the default islandMargin.  The     *)
(* second call is given the meshes of the first, as they were before it    *)
(* but with a second uv channel already filled, in any order, and the same *)
(* parameters.  The first call has left the list sorted; reordered tells   *)
(* that the second call got it in another order.                           *)

\* What a finished call gave every mesh, by the name of the mesh.
Outcome == {<<obList[m].name, result[m]>> : m \in 1..Len(obList)}

\* The lists with the meshes of a list in every order.
Reorderings(list) ==
    {[k \in 1..Len(list) |-> list[p[k]]] : p \in Permutations(1..Len(list))}

MapAgain ==
    /\ pc = "done"
    /\ ~earlier.called
    /\ \E list \in Reorderings(obList) :
           /\ obList' = [k \in 1..Len(list) |-> WithUvs2(list[k])]
           /\ earlier' = [called |-> TRUE, reordered |-> list # obList,
                          outcome |-> Outcome, ratio |-> worldToTexelRatio]
    /\ pc' = "sort"
    /\ i' = 0
    /\ heap' = <<>>
    /\ deletedFaces' = <<>>
    /\ equivalencies' = <<>>
    /\ collectedIslandList' = <<>>
    /\ pack' = NoPack
    /\ packCalls' = 0
    /\ worldToTexelRatio' = [n |-> 0, d |-> 1]
    /\ newUvs' = <<>>
    /\ indices' = <<>>
    /\ additionnalUvs' = <<>>
    /\ additionnalVertices' = <<>>
    /\ additionnalNormals' = <<>>
    /\ additionnalUvs2' = <<>>
    /\ corner' = <<0, 0, 0>>
    /\ result' = <<>>
    /\ projectVecs' = <<>>
    /\ faceProjectionGroupList' = <<>>
    /\ logged' = 0
    /\ UNCHANGED <<islandMargin, removeDoublesOpt, userAreaWeight, packing>>

NextTwice == Next \/ MapAgain

InitTwice == Init /\ islandMargin = 0

MapTwice == InitTwice /\ [][NextTwice]_vars

----------------------------------------------------------------------------
(* map with other area weights.  userAreaWeight is a number: 0 and 1 have  *)
(* branches of their own (lines 1374-1381), any other value goes through   *)
(* the blend of lines 1383-1387.                                           *)

AreaWeights == {0, 1, 2}

\* map(obList, 0, 89, userAreaWeight) with the other parameters at their
\* defaults.
WeightedInit ==
    /\ obList \in ObLists
    /\ earlier = NoCall
    /\ islandMargin = 0
    /\ removeDoublesOpt = TRUE
    /\ userAreaWeight \in AreaWeights
    /\ pc = "sort"
    /\ i = 0
    /\ heap = <<>>
    /\ deletedFaces = <<>>
    /\ equivalencies = <<>>
    /\ collectedIslandList = <<>>
    /\ pack = NoPack
    /\ packCalls = 0
    /\ worldToTexelRatio = [n |-> 0, d |-> 1]
    /\ newUvs = <<>>
    /\ indices = <<>>
    /\ additionnalUvs = <<>>
    /\ additionnalVertices = <<>>
    /\ additionnalNormals = <<>>
    /\ additionnalUvs2 = <<>>
    /\ corner = <<0, 0, 0>>
    /\ result = <<>>
    /\ projectVecs = <<>>
    /\ faceProjectionGroupList = <<>>
    /\ packing = NoPacking
    /\ logged = 0

Weighted == WeightedInit /\ [][Next]_vars

----------------------------------------------------------------------------
(* The vertex deduplicator and the face builder on their own: two meshes   *)
(* of the same vertices, drawn from a few points of which two round to the *)
(* same point, and three triangles on them.                                *)

MaxVertices == 5

\* The second point is within half of PRECISION of the third.
Points ==
    {<<0, 0, 0>>, <<2 * PRECISION - 1, 0, 0>>, <<2 * PRECISION, 0, 0>>,
     <<0, 2 * PRECISION, 0>>}

\* Three triangles on n vertices: the second one runs against the first
\* from the last vertex, the third is on the edge 0-1 of the first.
ThreeTriangles(n) ==
    <<0, 1 % n, 2 % n, n - 1, Max(n - 2, 0), Max(n - 3, 0), 0, 1 % n, 3 % n>>

VertexMesh(name, positions) ==
    [name |-> name, hasNormals |-> FALSE, world |-> <<0, 0, 0>>, normals |-> <<>>,
     positions |-> positions, indices |-> ThreeTriangles(Len(positions)), uvs2 |-> <<>>]

VertexLists ==
    UNION {{<<VertexMesh(1, positions), VertexMesh(2, positions)>> :
              positions \in [1..n -> Points]} : n \in 1..MaxVertices}

VertexInit ==
    /\ obList \in VertexLists
    /\ earlier = NoCall
    /\ islandMargin = 0
    /\ removeDoublesOpt \in BOOLEAN
    /\ userAreaWeight = 0
    /\ pc = "vertices"
    /\ i = 0
    /\ heap = <<>>
    /\ deletedFaces = <<>>
    /\ equivalencies = <<>>
    /\ collectedIslandList = <<>>
    /\ pack = NoPack
    /\ packCalls = 0
    /\ worldToTexelRatio = [n |-> 0, d |-> 1]
    /\ newUvs = <<>>
    /\ indices = <<>>
    /\ additionnalUvs = <<>>
    /\ additionnalVertices = <<>>
    /\ additionnalNormals = <<>>
    /\ additionnalUvs2 = <<>>
    /\ corner = <<0, 0, 0>>
    /\ result = <<>>
    /\ projectVecs = <<>>
    /\ faceProjectionGroupList = <<>>
    /\ packing = NoPacking
    /\ logged = 0

\* What the steps below leave alone.
others == <<obList, islandMargin, removeDoublesOpt, userAreaWeight, i, deletedFaces,
            collectedIslandList, pack, packCalls, worldToTexelRatio, newUvs, indices,
            additionnalUvs, additionnalVertices, additionnalNormals, additionnalUvs2,
            corner, result, earlier>>

\* equivalencies[i] of every mesh (lines 1330-1335).
Deduplicate ==
    /\ pc = "vertices"
    /\ equivalencies' = [m \in 1..Len(obList) |->
                            IF removeDoublesOpt THEN removeDoubles(obList[m])
                            ELSE [v \in 0..(NumVertices(obList[m]) - 1) |-> <<>>]]
    /\ pc' = "mapping"
    /\ UNCHANGED <<heap, projectVecs, faceProjectionGroupList, packing, logged, others>>

\* removeDoubles run once more, on the mesh with the indices it returned.
DeduplicateAgain ==
    /\ pc = "mapping"
    /\ removeDoublesOpt
    /\ equivalencies' = [m \in 1..Len(obList) |->
                            removeDoubles([obList[m] EXCEPT !.indices = obList[m].indices])]
    /\ pc' = "again"
    /\ UNCHANGED <<heap, projectVecs, faceProjectionGroupList, packing, logged, others>>

\* The Faces of both meshes (lines 1337-1340).
BuildMeshFaces ==
    /\ pc = "mapping"
    /\ \E first \in {BuildFaces(obList[1], 0, 0,
                                 [ids |-> <<>>, heap |-> <<>>, eq |-> equivalencies[1]])} :
       \E second \in {BuildFaces(obList[2], 1, 0,
                                  [ids |-> <<>>, heap |-> first.heap,
                                   eq |-> equivalencies[2]])} :
           /\ heap' = second.heap
           /\ equivalencies' = <<first.eq, second.eq>>
    /\ pc' = "faces"
    /\ UNCHANGED <<projectVecs, faceProjectionGroupList, packing, logged, others>>

\* The faces of mesh m (0-based) in the order of its index buffer.
FacesOfMesh(m) ==
    [k \in 1..(Len(obList[m + 1].indices) \div 3) |-> <<m, 3 * (k - 1)>>]

\* The faces of a list that have, or have not, zero area.
Degenerates(faces, yes) ==
    Keep(faces, 1, {k \in 1..Len(faces) : IsDegenerate(heap[faces[k]]) = yes})

\* One round of the while (faceGroupIdx) loop of getUvIslands (lines
\* 1102-1168) for the second mesh: its faces with an area as the group,
\* the zero-area faces of both meshes as deletedFaces.
FloodGroup ==
    /\ pc = "faces"
    /\ \E group \in {Degenerates(FacesOfMesh(1), FALSE)},
          deleted \in {Degenerates(FacesOfMesh(0) \o FacesOfMesh(1), TRUE)} :
           /\ deletedFaces' = deleted
           /\ collectedIslandList' = GroupIslands(heap, group, deleted)
    /\ pc' = "islands"
    /\ UNCHANGED <<obList, islandMargin, removeDoublesOpt, userAreaWeight, i, heap,
                   equivalencies, pack, packCalls, worldToTexelRatio, newUvs, indices,
                   additionnalUvs, additionnalVertices, additionnalNormals,
                   additionnalUvs2, corner, result, earlier, projectVecs,
                   faceProjectionGroupList, packing, logged>>

VertexNext == Deduplicate \/ DeduplicateAgain \/ BuildMeshFaces \/ FloodGroup

Vertices == VertexInit /\ [][VertexNext]_vars

----------------------------------------------------------------------------
(* map on a unit cube of 12 triangles, two per side.  A cube has either    *)
(* four vertices of its own per side (24, the corners coincide) or the 8   *)
(* corners shared by the sides; every side is cut along one of its two     *)
(* diagonals.                                                              *)

\* The corners of the six sides, each side in cyclic order.
CubeSides ==
    << <<P(0,0,0), P(0,1,0), P(1,1,0), P(1,0,0)>>,
       <<P(0,0,1), P(1,0,1), P(1,1,1), P(0,1,1)>>,
       <<P(0,0,0), P(1,0,0), P(1,0,1), P(0,0,1)>>,
       <<P(0,1,0), P(0,1,1), P(1,1,1), P(1,1,0)>>,
       <<P(0,0,0), P(0,0,1), P(0,1,1), P(0,1,0)>>,
       <<P(1,0,0), P(1,1,0), P(1,1,1), P(1,0,1)>> >>

\* The positions of the vertices, 0-based index k: four per side, or the
\* corner (x, y, z) at index x + 2y + 4z.
CubePositions(shared) ==
    IF shared
    THEN [k \in 1..8 |-> P((k - 1) % 2, ((k - 1) \div 2) % 2, (k - 1) \div 4)]
    ELSE [k \in 1..24 |-> CubeSides[((k - 1) \div 4) + 1][((k - 1) % 4) + 1]]

\* The index of corner c (0..3) of side s (1..6).
CubeIndex(shared, s, c) ==
    IF shared
    THEN The({(p[1] \div Unit) + 2 * (p[2] \div Unit) + 4 * (p[3] \div Unit) :
                 p \in {CubeSides[s][c + 1]}})
    ELSE 4 * (s - 1) + c

\* The two triangles of side s, cut along the diagonal from corner d.
SideTriangles(shared, s, d) ==
    <<CubeIndex(shared, s, d), CubeIndex(shared, s, d + 1), CubeIndex(shared, s, d + 2),
      CubeIndex(shared, s, d), CubeIndex(shared, s, d + 2), CubeIndex(shared, s, (d + 3) % 4)>>

CubeMesh(shared, diagonals) ==
    The({[name |-> 1, hasNormals |-> TRUE, world |-> <<0, 0, 0>>,
          normals |-> [k \in 1..Len(positions) |-> <<0, 0, k>>],
          positions |-> positions,
          indices |-> SideTriangles(shared, 1, diagonals[1])
                      \o SideTriangles(shared, 2, diagonals[2])
                      \o SideTriangles(shared, 3, diagonals[3])
                      \o SideTriangles(shared, 4, diagonals[4])
                      \o SideTriangles(shared, 5, diagonals[5])
                      \o SideTriangles(shared, 6, diagonals[6]),
          uvs2 |-> <<>>] : positions \in {CubePositions(shared)}})

Cubes == {CubeMesh(shared, diagonals) : shared \in BOOLEAN, diagonals \in [1..6 -> {0, 1}]}

\* map([cube]) with the default parameters.
CubeInit ==
    /\ obList \in {<<cube>> : cube \in Cubes}
    /\ earlier = NoCall
    /\ islandMargin = 0
    /\ removeDoublesOpt = TRUE
    /\ userAreaWeight = 0
    /\ pc = "sort"
    /\ i = 0
    /\ heap = <<>>
    /\ deletedFaces = <<>>
    /\ equivalencies = <<>>
    /\ collectedIslandList = <<>>
    /\ pack = NoPack
    /\ packCalls = 0
    /\ worldToTexelRatio = [n |-> 0, d |-> 1]
    /\ newUvs = <<>>
    /\ indices = <<>>
    /\ additionnalUvs = <<>>
    /\ additionnalVertices = <<>>
    /\ additionnalNormals = <<>>
    /\ additionnalUvs2 = <<>>
    /\ corner = <<0, 0, 0>>
    /\ result = <<>>
    /\ projectVecs = <<>>
    /\ faceProjectionGroupList = <<>>
    /\ packing = NoPacking
    /\ logged = 0

Cube == CubeInit /\ [][Next]_vars

----------------------------------------------------------------------------
(* The assignment of the faces to the projection vectors on its own (lines *)
(* 1433-1456): a few faces, given by their normals, and a few projection   *)
(* vectors.  The normals and the vectors are unit vectors of the program   *)
(* times DirectionLength, so that directions off the axes have integer     *)
(* components; the loop only compares dot products with each other.        *)

MaxFaces == 2
MaxVecs == 3

\* 3, the length of (1, 2, 2).
DirectionLength == 3

Directions ==
    {<<0, 0, DirectionLength>>, <<1, 2, 2>>, <<2, 1, 2>>, <<2, 2, 1>>, <<-2, -1, -2>>}

\* The Face at offset index of the index buffer of mesh 0 with the given
\* normal, as the constructor leaves it: the uvs are new Vector2(), and the
\* edge keys are those of a face that shares no vertex with another.
FaceTowards(index, no) ==
    [no |-> no, index |-> index, meshIndex |-> 0,
     uv |-> [k \in 1..3 |-> Uv0(0, 0)],
     edgeKeys |-> <<EdgeKey(0, index, index + 1), EdgeKey(0, index + 1, index + 2),
                    EdgeKey(0, index + 2, index)>>]

\* meshFaces of the mesh: its faces in the order of the index buffer.
AssignedFaces == [k \in 1..Cardinality(DOMAIN heap) |-> <<0, 3 * (k - 1)>>]

AssignInit ==
    /\ obList = <<>>
    /\ earlier = NoCall
    /\ islandMargin = 0
    /\ removeDoublesOpt = TRUE
    /\ userAreaWeight = 0
    /\ pc = "assign"
    /\ i = 0
    /\ heap \in UNION {{[id \in {<<0, 3 * (k - 1)>> : k \in 1..n} |->
                            FaceTowards(id[2], normals[(id[2] \div 3) + 1])] :
                           normals \in [1..n -> Directions]} : n \in 1..MaxFaces}
    /\ projectVecs \in UNION {[1..n -> Directions] : n \in 1..MaxVecs}
    /\ faceProjectionGroupList = <<>>
    /\ deletedFaces = <<>>
    /\ equivalencies = <<>>
    /\ collectedIslandList = <<>>
    /\ pack = NoPack
    /\ packCalls = 0
    /\ worldToTexelRatio = [n |-> 0, d |-> 1]
    /\ newUvs = <<>>
    /\ indices = <<>>
    /\ additionnalUvs = <<>>
    /\ additionnalVertices = <<>>
    /\ additionnalNormals = <<>>
    /\ additionnalUvs2 = <<>>
    /\ corner = <<0, 0, 0>>
    /\ result = <<>>
    /\ packing = NoPacking
    /\ logged = 0

\* The loops of lines 1433-1456.
AssignFaces ==
    /\ pc = "assign"
    /\ faceProjectionGroupList' = FaceProjectionGroupList(heap, AssignedFaces, projectVecs)
    /\ pc' = "assigned"
    /\ UNCHANGED <<heap, equivalencies, projectVecs, packing, logged, others>>

\* this.getUvIslands(faceProjectionGroupList, deletedFaces) of line 1475.
CollectIslands ==
    /\ pc = "assigned"
    /\ \E r \in {getUvIslands(heap, faceProjectionGroupList, deletedFaces)} :
           /\ heap' = r.heap
           /\ collectedIslandList' = IF r.threw THEN collectedIslandList ELSE r.islandList
           /\ pc' = IF r.threw THEN "threw" ELSE "islands"
    /\ UNCHANGED <<obList, islandMargin, removeDoublesOpt, userAreaWeight, i, deletedFaces,
                   equivalencies, pack, packCalls, worldToTexelRatio, newUvs, indices,
                   additionnalUvs, additionnalVertices, additionnalNormals,
                   additionnalUvs2, corner, result, earlier, projectVecs,
                   faceProjectionGroupList, packing, logged>>

Assign == AssignInit /\ [][AssignFaces \/ CollectIslands]_vars

----------------------------------------------------------------------------
(* optiRotateUvIsland on its own: an island of one face, or of the two     *)
(* faces of a rectangle, with uvs on a small grid.  The model turns by     *)
(* multiples of 90 degrees only, so the islands are those for which        *)
(* fitAabb2d finds angle 0: its best edge is horizontal.                   *)

MaxUv == 3

\* The Face at offset index of the index buffer of mesh 0, of which only the
\* uvs are given.
FaceAt(index, uv) ==
    [uv |-> [k \in 1..3 |-> Uv0(uv[k][1], uv[k][2])], index |-> index, meshIndex |-> 0]

\* The uv points of the faces of a heap, in the order optiRotateUvIsland
\* collects them.
UvPoints(faces, island) ==
    [p \in 1..(3 * Len(island)) |->
        LET uv == faces[island[((p - 1) \div 3) + 1]].uv[((p - 1) % 3) + 1]
        IN  <<uv.x, uv.y>>]

\* The islands of one face: triangles with an area.
TriangleIslands ==
    {[id \in {<<0, 0>>} |-> FaceAt(0, uv)] :
        uv \in {t \in [1..3 -> (0..MaxUv) \X (0..MaxUv)] : cross(t[1], t[2], t[3]) # 0}}

\* The islands of two faces: rectangles cut along a diagonal.
RectangleIslands ==
    {[id \in {<<0, 0>>, <<0, 3>>} |->
         IF id[2] = 0 THEN FaceAt(0, <<<<0, 0>>, <<w, 0>>, <<w, h>>>>)
         ELSE FaceAt(3, <<<<0, 0>>, <<w, h>>, <<0, h>>>>)] :
        w \in 1..MaxUv, h \in 1..MaxUv}

\* The faces of a heap as an island, in the order of the index buffer.
IslandOf(faces) == [k \in 1..Cardinality(DOMAIN faces) |-> <<0, 3 * (k - 1)>>]

\* fitAabb2d finds no edge or a horizontal one.
Level(faces) ==
    The({dvecBest[2] = 0 :
            dvecBest \in {The({FitDirection(hull) :
                              hull \in {convexhull2d(UvPoints(faces, IslandOf(faces)))}})}})

OrientInit ==
    /\ obList = <<>>
    /\ earlier = NoCall
    /\ islandMargin = 0
    /\ removeDoublesOpt = TRUE
    /\ userAreaWeight = 0
    /\ pc = "orient"
    /\ i = 0
    /\ heap \in {faces \in TriangleIslands \union RectangleIslands : Level(faces)}
    /\ collectedIslandList = <<IslandOf(heap)>>
    /\ projectVecs = <<>>
    /\ faceProjectionGroupList = <<>>
    /\ deletedFaces = <<>>
    /\ equivalencies = <<>>
    /\ pack = NoPack
    /\ packCalls = 0
    /\ worldToTexelRatio = [n |-> 0, d |-> 1]
    /\ newUvs = <<>>
    /\ indices = <<>>
    /\ additionnalUvs = <<>>
    /\ additionnalVertices = <<>>
    /\ additionnalNormals = <<>>
    /\ additionnalUvs2 = <<>>
    /\ corner = <<0, 0, 0>>
    /\ result = <<>>
    /\ packing = NoPacking
    /\ logged = 0

\* this.optiRotateUvIsland(islandList[i]) of line 1172.
OrientIsland ==
    /\ pc = "orient"
    /\ heap' = optiRotateUvIsland(heap, collectedIslandList[1])
    /\ pc' = "oriented"
    /\ UNCHANGED <<equivalencies, projectVecs, faceProjectionGroupList, packing, logged,
                   others>>

Orient == OrientInit /\ [][OrientIsland]_vars

----------------------------------------------------------------------------
(* BoxPack2d on its own: up to MaxBoxes boxes of whole model lengths, one  *)
(* round of the loop over the boxes at a time.                             *)

MaxBoxes == 3
MaxWide == 4
MaxTall == 2

\* The boxes packIslands hands over: widths and heights above 0.
BoxLists ==
    UNION {[1..n -> {[x |-> 0, y |-> 0, w |-> w, h |-> h, islandIdx |-> 0] :
                        w \in 1..MaxWide, h \in 1..MaxTall}] : n \in 1..MaxBoxes}

PackInit ==
    /\ obList = <<>>
    /\ earlier = NoCall
    /\ islandMargin = 0
    /\ removeDoublesOpt = TRUE
    /\ userAreaWeight = 0
    /\ pc = "packing"
    /\ i = 0
    /\ heap = <<>>
    /\ collectedIslandList = <<>>
    /\ projectVecs = <<>>
    /\ faceProjectionGroupList = <<>>
    /\ deletedFaces = <<>>
    /\ equivalencies = <<>>
    /\ pack = NoPack
    /\ packCalls = 0
    /\ worldToTexelRatio = [n |-> 0, d |-> 1]
    /\ newUvs = <<>>
    /\ indices = <<>>
    /\ additionnalUvs = <<>>
    /\ additionnalVertices = <<>>
    /\ additionnalNormals = <<>>
    /\ additionnalUvs2 = <<>>
    /\ corner = <<0, 0, 0>>
    /\ result = <<>>
    /\ logged = 0
    /\ \E boxes \in BoxLists :
       \E st \in {StartBoxPack([k \in DOMAIN boxes |-> [boxes[k] EXCEPT !.islandIdx = k - 1]])} :
           packing = [st |-> st, startWidth |-> st.spaces[1].w, k |-> 1, found |-> TRUE]

\* One round of for (const box of boxes) of line 1693.
PlaceNextBox ==
    /\ pc = "packing"
    /\ packing.k <= Len(packing.st.boxes)
    /\ packing' = [packing EXCEPT
                     !.st = PlaceBox(packing.st, packing.k),
                     !.k = packing.k + 1,
                     !.found = FindSpace(packing.st.spaces, Len(packing.st.spaces),
                                         packing.st.boxes[packing.k]) # 0]
    /\ UNCHANGED <<pc, heap, equivalencies, projectVecs, faceProjectionGroupList, logged,
                   others>>

\* The return of line 1756.
PackDone ==
    /\ pc = "packing"
    /\ packing.k > Len(packing.st.boxes)
    /\ pc' = "packed"
    /\ UNCHANGED <<heap, equivalencies, projectVecs, faceProjectionGroupList, packing,
                   logged, others>>

Pack == PackInit /\ [][PlaceNextBox \/ PackDone]_vars

----------------------------------------------------------------------------
(* Properties of map *)

\* The triangles of the input meshes, by the identity of their Face.
Triangles ==
    UNION {{<<m - 1, 3 * t>> : t \in 0..((Len(obList[m].indices) \div 3) - 1)} :
              m \in 1..Len(obList)}

\* The places <<island, position>> of the collected island list.
IslandPlaces ==
    UNION {{<<a, b>> : b \in 1..Len(collectedIslandList[a])} :
              a \in 1..Len(collectedIslandList)}

\* How often a face occurs in the islands and in the degenerate set.
Occurrences(id) ==
    Cardinality({p \in IslandPlaces : collectedIslandList[p[1]][p[2]] = id})
    + Cardinality({k \in 1..Len(deletedFaces) : deletedFaces[k] = id})

\* The loop over the meshes has ended without a throw.
IslandsCollected == pc \in {"seam", "done"}

\* C1: when all meshes have been processed, every triangle of the input
\* occurs exactly once in the islands of the collected island list and the
\* degenerate set together, and they hold nothing but input triangles.
C1_Partition ==
    IslandsCollected =>
        /\ \A id \in Triangles : Occurrences(id) = 1
        /\ \A p \in IslandPlaces : collectedIslandList[p[1]][p[2]] \in Triangles
        /\ \A k \in 1..Len(deletedFaces) : deletedFaces[k] \in Triangles

\* The largest number of scalings any uv of the heap has had.
Depth ==
    LET ds == {0} \cup {heap[id].uv[k].d : id \in DOMAIN heap, k \in 1..3}
    IN  CHOOSE d \in ds : \A o \in ds : o <= d

\* The uv bounding rectangle of island a after packing, in units of
\* 1 / packMax^Depth.
IslandRect(a) ==
    LET scale(uv) == Pow(pack.packMax, Depth - uv.d)
        xs == {heap[collectedIslandList[a][b]].uv[k].x
                  * scale(heap[collectedIslandList[a][b]].uv[k]) :
                  b \in 1..Len(collectedIslandList[a]), k \in 1..3}
        ys == {heap[collectedIslandList[a][b]].uv[k].y
                  * scale(heap[collectedIslandList[a][b]].uv[k]) :
                  b \in 1..Len(collectedIslandList[a]), k \in 1..3}
    IN  [minx |-> CHOOSE x \in xs : \A o \in xs : x <= o,
         miny |-> CHOOSE y \in ys : \A o \in ys : y <= o,
         maxx |-> CHOOSE x \in xs : \A o \in xs : x >= o,
         maxy |-> CHOOSE y \in ys : \A o \in ys : y >= o]

\* Two rectangles whose interiors have no point in common.
InteriorsDisjoint(r, s) ==
    \/ r.maxx <= s.minx \/ s.maxx <= r.minx
    \/ r.maxy <= s.miny \/ s.maxy <= r.miny
    \/ r.minx = r.maxx \/ r.miny = r.maxy
    \/ s.minx = s.maxx \/ s.miny = s.maxy

\* C2: after packIslands the uv bounding rectangles of any two distinct
\* islands have disjoint interiors.
C2_NoOverlap ==
    (packCalls = 1 /\ pc = "seam" /\ corner = <<0, 0, 0>>) =>
        \A a, b \in 1..Len(collectedIslandList) :
            a < b => InteriorsDisjoint(IslandRect(a), IslandRect(b))

\* A uv whose value lies in [0, 1] x [0, 1].
InUnitSquare(uv) ==
    LET one == IF uv.d = 0 THEN Unit ELSE Pow(pack.packMax, uv.d)
    IN  0 <= uv.x /\ uv.x <= one /\ 0 <= uv.y /\ uv.y <= one

\* C3: when map has returned, every uv of the new channel of every mesh,
\* in the slots of the original and of the appended vertices, lies in
\* [0, 1] x [0, 1].
C3_Bounds ==
    pc = "done" =>
        \A m \in 1..Len(result) : \A v \in 1..Len(result[m].uvs2) :
            InUnitSquare(result[m].uvs2[v])

\* The triangle corners <<face, k>> of the faces built, the vertex index a
\* corner has in the input, the index it has in the output and its uv.
Corners == {<<id, k>> : id \in DOMAIN heap, k \in 0..2}
OriginalIndex(c) == At(obList[c[1][1] + 1].indices, c[1][2] + c[2])
FinalIndex(c) == At(result[c[1][1] + 1].indices, c[1][2] + c[2])
CornerUv(c) == heap[c[1]].uv[c[2] + 1]
OutputUv(c) == At(result[c[1][1] + 1].uvs2, FinalIndex(c))

\* The corners of mesh m (1-based) that refer to vertex v in the input.
CornersOf(m, v) == {c \in Corners : c[1][1] = m - 1 /\ OriginalIndex(c) = v}

\* C4: when map has returned and all the corners that refer to one
\* original vertex carry the same uv, every one of them still has the index
\* of the original vertex (no duplicate of it was appended for them).
C4_NoNeedlessDuplication ==
    pc = "done" =>
        \A m \in 1..Len(obList) : \A v \in 0..(NumVertices(obList[m]) - 1) :
            (\A c1, c2 \in CornersOf(m, v) :
                UvEquals(CornerUv(c1), CornerUv(c2), pack.packMax))
            => \A c \in CornersOf(m, v) : FinalIndex(c) = v

\* The value -1 a slot of newUvs has before it is written.
NotWritten == [x |-> -pack.packMax, y |-> -pack.packMax, d |-> 1]

\* When map has returned, the vertex a corner points at carries the uv of
\* the corner.
CornersCarryTheirUv ==
    pc = "done" =>
        \A c \in Corners : UvEquals(OutputUv(c), CornerUv(c), pack.packMax)

\* A uv slot that has been written, of an original or of an appended
\* vertex, keeps its value.
WrittenUvsKept ==
    /\ \A m \in DOMAIN newUvs : \A v \in DOMAIN newUvs[m] :
          (pc = "seam" /\ newUvs[m][v] # NotWritten) => newUvs'[m][v] = newUvs[m][v]
    /\ \A m \in DOMAIN additionnalUvs : \A h \in DOMAIN additionnalUvs[m] :
          pc = "seam" => /\ h \in DOMAIN additionnalUvs'[m]
                         /\ additionnalUvs'[m][h] = additionnalUvs[m][h]

\* C5: a written uv is never overwritten, and when map has returned the
\* vertex that the index buffer gives for a corner carries exactly the uv
\* computed for that corner.
C5_ConsistentUvs == [][WrittenUvsKept]_vars /\ []CornersCarryTheirUv

\* C6: when map has returned, every index buffer has the length it had, and
\* every index is an original vertex index or the vertex count plus the
\* position of an entry of the mesh's table of appended vertices.
C6_ValidReferences ==
    pc = "done" =>
        \A m \in 1..Len(obList) :
            /\ Len(result[m].indices) = Len(obList[m].indices)
            /\ \A k \in 1..Len(result[m].indices) :
                  \/ result[m].indices[k] \in 0..(NumVertices(obList[m]) - 1)
                  \/ result[m].indices[k] - NumVertices(obList[m])
                        \in 0..(Len(additionnalUvs[m]) - 1)

\* map has returned and a corner points at an appended vertex.
C6_Witness ==
    /\ pc = "done"
    /\ \E m \in 1..Len(obList) : \E k \in 1..Len(result[m].indices) :
          result[m].indices[k] >= NumVertices(obList[m])

\* C7: when map has returned, every corner of every triangle of area at most
\* SMALL_NUM has the uv (0, 0) in the output.
C7_DegenerateAtOrigin ==
    pc = "done" =>
        \A c \in Corners :
            IsDegenerate(heap[c[1]]) => OutputUv(c).x = 0 /\ OutputUv(c).y = 0

\* C8: map never throws, whether or not the meshes have normals.
C8_NoThrow == pc # "threw"

\* The largest x + w and y + h over the placed boxes.
PackedWidth ==
    LET ws == {0} \cup {pack.packBoxes[b].x + pack.packBoxes[b].w :
                          b \in 1..Len(pack.packBoxes)}
    IN  CHOOSE w \in ws : \A o \in ws : o <= w
PackedHeight ==
    LET hs == {0} \cup {pack.packBoxes[b].y + pack.packBoxes[b].h :
                          b \in 1..Len(pack.packBoxes)}
    IN  CHOOSE h \in hs : \A o \in hs : o <= h

\* A step that calls packIslands: it is the first call, every mesh has been
\* processed and has its faces built, and the call gets the whole island
\* list and gives the ratio.
PackStep ==
    packCalls' # packCalls =>
        /\ packCalls = 0 /\ packCalls' = 1
        /\ i = Len(obList)
        /\ DOMAIN heap = Triangles
        /\ collectedIslandList' = collectedIslandList
        /\ Len(pack'.packBoxes) = Len(collectedIslandList)
        /\ worldToTexelRatio' = [n |-> Unit, d |-> pack'.packMax]

\* After the call nothing is built, packed or scaled any more.
AfterPackStep ==
    packCalls = 1 =>
        /\ collectedIslandList' = collectedIslandList
        /\ heap' = heap
        /\ worldToTexelRatio' = worldToTexelRatio

\* When map has returned, packIslands has been called once, the ratio is
\* its factor and every uv of every island has been scaled by it.
PackedOnce ==
    pc = "done" =>
        /\ packCalls = 1
        /\ worldToTexelRatio = [n |-> Unit, d |-> pack.packMax]
        /\ \A p \in IslandPlaces : \A k \in 1..3 :
              heap[collectedIslandList[p[1]][p[2]]].uv[k].d >= 1

\* C9: packIslands is called exactly once, after the islands of every mesh
\* have been built, on all of them, and its factor is the ratio map returns.
C9_SharedSpacePacking == [][PackStep /\ AfterPackStep]_vars /\ []PackedOnce

\* map has returned for two meshes that both have islands, packed together.
C9_Witness ==
    /\ pc = "done"
    /\ packCalls = 1
    /\ Len(obList) = 2
    /\ \E p, q \in IslandPlaces : /\ collectedIslandList[p[1]][p[2]][1] = 0
                                  /\ collectedIslandList[q[1]][q[2]][1] = 1

\* C10: packIslands returns 1 / max(W, H) for the packed width W and height
\* H (1 for an empty island list), and the uv of every corner of every island
\* is the uv it had, translated by the place of the island's box minus the
\* island's offset, times that factor once.
C10_ScaleFactor ==
    packCalls = 1 =>
        /\ worldToTexelRatio =
              [n |-> Unit,
               d |-> IF Len(collectedIslandList) # 0
                     THEN Max(PackedWidth, PackedHeight) ELSE Unit]
        /\ \A b \in 1..Len(pack.packBoxes) :
              LET box == pack.packBoxes[b]
                  island == At(collectedIslandList, box.islandIdx)
                  offset == At(pack.islandOffsetList, box.islandIdx)
              IN  \A j \in 1..Len(island) : \A k \in 1..3 :
                      heap[island[j]].uv[k] =
                          [x |-> pack.before[island[j]].uv[k].x + box.x - offset[1],
                           y |-> pack.before[island[j]].uv[k].y + box.y - offset[2],
                           d |-> 1]

\* C11: two calls of map on the same meshes, whose names differ pairwise,
\* give every mesh the same new uvs, indices and appended vertices and
\* return the same ratio, whatever the order of the list and whatever the
\* second uv channel held before the call.
C11_OrderIndependent ==
    (earlier.called /\ pc = "done") =>
        /\ Outcome = earlier.outcome
        /\ worldToTexelRatio = earlier.ratio

\* A second call has finished on the list in another order, with the second
\* uv channel filled before, and appended a vertex to a mesh.
C11_Witness ==
    /\ earlier.called
    /\ earlier.reordered
    /\ pc = "done"
    /\ Len(obList) = 2
    /\ Len(obList[1].uvs2) > 0
    /\ \E m \in 1..Len(obList) : Len(additionnalUvs[m]) > 0

\* The box of island islandIdx is its uv bounds of before the packing, each
\* side moved out by half of margin times the width or height.
BoxEnlargedBy(box, margin) ==
    \E b \in {boundsIslands0(pack.before, At(collectedIslandList, box.islandIdx))} :
        /\ box.w = Max(SMALL_NUM, (b.maxx - b.minx) + margin * (b.maxx - b.minx))
        /\ box.h = Max(SMALL_NUM, (b.maxy - b.miny) + margin * (b.maxy - b.miny))

\* C12: when map is called with an islandMargin above 0, the packing
\* rectangle of every island is the uv bounding box of the island enlarged
\* by that margin.
C12_MarginHonoured ==
    islandMargin > 0 =>
        \A k \in 1..Len(pack.packBoxes) : BoxEnlargedBy(pack.packBoxes[k], islandMargin)

\* The islands pushed on collectedIslandList by the step, by position.
NewIslands == (Len(collectedIslandList) + 1)..Len(collectedIslandList')

\* C13: every island built while mesh i is processed holds only faces whose
\* meshIndex is i.
C13_IslandsOfOneMesh ==
    [][ProcessMesh =>
          \A k \in NewIslands : \A j \in 1..Len(collectedIslandList'[k]) :
              collectedIslandList'[k][j] # Undefined =>
                  heap'[collectedIslandList'[k][j]].meshIndex = i]_vars

----------------------------------------------------------------------------
(* Properties of the vertex deduplicator and of the edge keys *)

\* The indices in a list of the mapping.
Listed(list) == {list[k] : k \in 1..Len(list)}

\* The vertices of a mesh whose positions round to the point of vertex v.
Coincident(mesh, v) ==
    {w \in 0..(NumVertices(mesh) - 1) : RoundedPosition(mesh, w) = RoundedPosition(mesh, v)}

\* C14: in the mapping returned by removeDoubles every vertex index has an
\* entry that holds the index itself and every other index whose position
\* rounds to the same point, and nothing else.
C14_Complete ==
    (pc = "mapping" /\ removeDoublesOpt) =>
        \A m \in 1..Len(obList) : \A v \in 0..(NumVertices(obList[m]) - 1) :
            Listed(equivalencies[m][v]) = Coincident(obList[m], v)

\* C15: whenever j is in the list of i, i is in the list of j, and no list
\* holds an index twice.
C15_Symmetric ==
    pc = "mapping" =>
        \A m \in 1..Len(obList) : \A v \in 0..(NumVertices(obList[m]) - 1) :
            /\ \A w \in Listed(equivalencies[m][v]) : v \in Listed(equivalencies[m][w])
            /\ Cardinality(Listed(equivalencies[m][v])) = Len(equivalencies[m][v])

\* removeDoubles has returned the mapping of a mesh with three vertices at
\* one point and a fourth, alone at another.
C15_Witness ==
    /\ pc = "mapping"
    /\ removeDoublesOpt
    /\ \E v \in 0..(NumVertices(obList[1]) - 1) :
           /\ Cardinality(Coincident(obList[1], v)) = 3
           /\ Len(equivalencies[1][v]) = 3
    /\ \E v \in 0..(NumVertices(obList[1]) - 1) : Cardinality(Coincident(obList[1], v)) = 1

\* The position class of vertex v in the mapping of a mesh: the indices
\* linked to v through the lists.
ClassOf(eq, v) ==
    {v} \union Listed(eq[v]) \union UNION {Listed(eq[w]) : w \in Listed(eq[v])}

\* The two position classes at the ends of edge j of a face.
EdgeClasses(f, j) ==
    {ClassOf(equivalencies[f.meshIndex + 1], f.v[j].index),
     ClassOf(equivalencies[f.meshIndex + 1], f.v[(j % 3) + 1].index)}

\* C16: an edge of a triangle and an edge of a triangle of the same mesh
\* have the same key whenever their ends are in the same two position
\* classes of the mapping; edges of different meshes never have the same key.
C16_CanonicalEdgeKeys ==
    pc = "faces" =>
        \A f \in DOMAIN heap, g \in DOMAIN heap : \A j \in 1..3, k \in 1..3 :
            IF heap[f].meshIndex = heap[g].meshIndex
            THEN EdgeClasses(heap[f], j) = EdgeClasses(heap[g], k)
                    => heap[f].edgeKeys[j] = heap[g].edgeKeys[k]
            ELSE heap[f].edgeKeys[j] # heap[g].edgeKeys[k]

\* Two triangles of a mesh have an edge with the same key between two
\* classes but on other indices, one end in a class of three vertices.
C16_Witness ==
    /\ pc = "faces"
    /\ \E f \in DOMAIN heap, g \in DOMAIN heap : \E j \in 1..3, k \in 1..3 :
           /\ f # g
           /\ heap[f].meshIndex = heap[g].meshIndex
           /\ heap[f].edgeKeys[j] = heap[g].edgeKeys[k]
           /\ Cardinality(EdgeClasses(heap[f], j)) = 2
           /\ {heap[f].v[j].index, heap[f].v[(j % 3) + 1].index}
                  # {heap[g].v[k].index, heap[g].v[(k % 3) + 1].index}
           /\ \E c \in EdgeClasses(heap[f], j) : Cardinality(c) >= 3

\* C17: removeDoubles run a second time, on the mesh that resulted from the
\* first run, gives every vertex a class of size 1.
C17_Idempotent ==
    pc = "again" =>
        \A m \in 1..Len(obList) : \A v \in 0..(NumVertices(obList[m]) - 1) :
            ClassOf(equivalencies[m], v) = {v}

----------------------------------------------------------------------------
(* Properties of map on the cube *)

\* meshFaces of mesh m (1-based) when the projection loop starts: its faces
\* by falling area without the zero-area ones.
MeshFacesOf(m) ==
    The({The({Keep(sorted, 1, {k \in 1..Len(sorted) : ~IsDegenerate(heap[sorted[k]])}) :
                 sorted \in {StableSort(ids, [k \in DOMAIN ids |-> -heap[ids[k]].area2])}}) :
            ids \in {[k \in 1..(Len(obList[m].indices) \div 3) |-> <<m - 1, 3 * (k - 1)>>]}})

\* The projection vectors gathered for mesh m.
ProjectVecsOf(m) ==
    The({GatherProjectVecs(heap, meshFaces, heap[meshFaces[1]].no, <<>>, <<>>,
                           userAreaWeight) : meshFaces \in {MeshFacesOf(m)}})

\* The side of the cube a triangle is on, from its place in the index buffer.
SideOf(id) == (id[2] \div 6) + 1

\* C18: for the unit cube of 12 triangles with the default parameters there
\* are at most 6 projection vectors and exactly 6 islands of 2 triangles
\* each, and no island holds triangles of two sides.
C18_CubeIslands ==
    i = 1 =>
        /\ Len(ProjectVecsOf(1)) <= 6
        /\ Len(collectedIslandList) = 6
        /\ \A k \in 1..6 :
              /\ Len(collectedIslandList[k]) = 2
              /\ collectedIslandList[k][1] # collectedIslandList[k][2]
              /\ SideOf(collectedIslandList[k][1]) = SideOf(collectedIslandList[k][2])

\* The cube with four vertices per side has been cut into islands.
C18_Witness ==
    /\ pc = "done"
    /\ Len(obList) = 1
    /\ NumVertices(obList[1]) = 24
    /\ Len(obList[1].indices) = 36
    /\ Len(collectedIslandList) > 0
    /\ Len(ProjectVecsOf(1)) > 1

----------------------------------------------------------------------------
(* Properties of getUvIslands, stated for the mesh that was processed last *)

\* The face groups of mesh m handed to getUvIslands.
GroupsOf(m) ==
    The({FaceProjectionGroupList(heap, meshFaces, ProjectVecsOf(m)) :
            meshFaces \in {MeshFacesOf(m)}})

\* getUvIslands has been called for the mesh processed last.
IslandsBuilt == pc = "meshes" /\ i >= 1 /\ Len(MeshFacesOf(i)) > 0

\* The places of a face in a list of islands.
PlacesIn(islandList, id) ==
    {<<a, b>> \in UNION {{<<a, b>> : b \in 1..Len(islandList[a])} : a \in 1..Len(islandList)} :
        islandList[a][b] = id}

\* C19: every face of a projection group handed to getUvIslands (none of
\* them has zero area) is in exactly one of the islands built for the
\* group, once.
C19_GroupPartition ==
    IslandsBuilt =>
        \A group \in {GroupsOf(i)[g] : g \in 1..Len(GroupsOf(i))} :
            \E islandList \in {GroupIslands(heap, group, deletedFaces)} :
                \A k \in 1..Len(group) :
                    Cardinality(PlacesIn(islandList, group[k])) = 1

\* A group of two faces has been cut into islands while a zero-area face
\* was on deletedFaces.
C19_Witness ==
    /\ IslandsBuilt
    /\ Len(deletedFaces) > 0
    /\ \E g \in 1..Len(GroupsOf(i)) :
           /\ Len(GroupsOf(i)[g]) = 2
           /\ Len(GroupIslands(heap, GroupsOf(i)[g], deletedFaces)) >= 1

\* Two faces of a list share an edge key.
Adjacent(faces, p, q) ==
    \E j \in 1..3, k \in 1..3 : heap[faces[p]].edgeKeys[j] = heap[faces[q]].edgeKeys[k]

\* The positions linked to those of S by chains of faces of the list in
\* which consecutive faces share an edge key.
RECURSIVE Component(_, _)
Component(faces, S) ==
    The({IF T = S THEN S ELSE Component(faces, T) :
            T \in {S \union {q \in 1..Len(faces) : \E p \in S : Adjacent(faces, p, q)}}})

\* Two faces are in one island of a list of islands.
SameIsland(islandList, a, b) ==
    \E k \in 1..Len(islandList) :
        /\ \E x \in 1..Len(islandList[k]) : islandList[k][x] = a
        /\ \E y \in 1..Len(islandList[k]) : islandList[k][y] = b

\* The face list of the round of FloodGroup: the group, then deletedFaces.
FloodedFaces == Degenerates(FacesOfMesh(1), FALSE) \o deletedFaces

\* faceModes at the end of that round.
FloodedModes ==
    The({r.faceModes :
            r \in {GroupFlood(heap, Degenerates(FacesOfMesh(1), FALSE), deletedFaces)}})

\* C20: within the face list of one group two faces are in the same
\* island exactly when a chain of faces of the list, consecutive ones
\* sharing an edge key, links them, and the flood fill ends with every
\* face of the list in mode 2.
C20_ConnectedComponents ==
    pc = "islands" =>
        \E faces \in {FloodedFaces} :
            /\ \A p \in 1..Len(faces) : FloodedModes[p] = 2
            /\ \A p \in 1..Len(faces), q \in 1..Len(faces) :
                   SameIsland(collectedIslandList, faces[p], faces[q])
                       <=> q \in Component(faces, {p})

\* The list held two faces of a mesh that share a vertex and no edge key
\* and are in two islands, one of them with another face; every face is in
\* mode 2.
C20_Witness ==
    /\ pc = "islands"
    /\ \E faces \in {FloodedFaces} :
           /\ \A p \in 1..Len(faces) : FloodedModes[p] = 2
           /\ \E p \in 1..Len(faces), q \in 1..Len(faces) :
                  /\ p # q
                  /\ faces[p][1] = faces[q][1]
                  /\ \E j \in 1..3, k \in 1..3 :
                         heap[faces[p]].v[j].index = heap[faces[q]].v[k].index
                  /\ ~Adjacent(faces, p, q)
                  /\ ~SameIsland(collectedIslandList, faces[p], faces[q])
           /\ \E k \in 1..Len(collectedIslandList) : Len(collectedIslandList[k]) > 1

----------------------------------------------------------------------------
(* Properties of the projection grouper *)

\* The 1-based places of the projection vectors whose dot product with the
\* normal of a face is the largest.
Closest(id) ==
    {g \in 1..Len(projectVecs) :
        \A j \in 1..Len(projectVecs) :
            Dot3(heap[id].no, projectVecs[g]) >= Dot3(heap[id].no, projectVecs[j])}

\* The largest number of a non-empty finite set.
Largest(S) == CHOOSE x \in S : \A y \in S : y <= x

\* C21: every face of the mesh is in exactly one projection group, once,
\* and the vector of that group has the largest dot product with the normal
\* of the face of all projection vectors: vector 0 if it is among those
\* with the largest dot product, and else the one of them with the highest
\* index.
C21_ProjectionAssignment ==
    pc = "assigned" =>
        /\ Len(faceProjectionGroupList) = Len(projectVecs)
        /\ \A id \in DOMAIN heap :
              \E places \in {PlacesIn(faceProjectionGroupList, id)} :
                  /\ Cardinality(places) = 1
                  /\ \A p \in places :
                        /\ p[1] \in Closest(id)
                        /\ p[1] = IF 1 \in Closest(id) THEN 1 ELSE Largest(Closest(id))

\* The faces have been assigned: one of them has its largest dot product
\* with two vectors that are not vector 0 and is in the group of the later
\* one, another has it with vector 0 and a later vector.
C21_Witness ==
    /\ pc = "assigned"
    /\ \E id \in DOMAIN heap :
           /\ Cardinality(Closest(id)) >= 2
           /\ 1 \notin Closest(id)
           /\ PlacesIn(faceProjectionGroupList, id) = {<<Largest(Closest(id)), 1>>}
    /\ \E id \in DOMAIN heap :
           /\ Cardinality(Closest(id)) >= 2
           /\ 1 \in Closest(id)

\* C22: map never stays in the while (true) loop that gathers the
\* projection vectors, whatever the area weight, and for a mesh with a face
\* of non-zero area the loop is left with at least one projection vector.
C22_LoopTerminates ==
    /\ pc # "looping"
    /\ (pc = "meshes" /\ i >= 1 /\ Len(MeshFacesOf(i)) > 0) => Len(projectVecs) >= 1

\* C23: a round of the loop over the meshes that ends with no projection
\* vector for the mesh has written a line to the log and has skipped the
\* mesh: no island is added and map goes on with the next mesh.
C23_LoggedAndSkipped ==
    [][(ProcessMesh /\ Len(projectVecs') = 0) =>
          /\ logged' = logged + 1
          /\ pc' = "meshes"
          /\ collectedIslandList' = collectedIslandList]_vars

----------------------------------------------------------------------------
(* Properties of the island orientation *)

\* C24: when optiRotateUvIsland has processed an island, the uv bounding
\* box of the island is at least as wide as it is tall.
C24_Landscape ==
    pc = "oriented" =>
        \E b \in {boundsIslands0(heap, collectedIslandList[1])} :
            b.maxx - b.minx >= b.maxy - b.miny

\* The edges of a hull as directions: every point minus the point before
\* it, the first minus the last.
HullEdges(hull) ==
    {<<hull[k][1] - hull[IF k = 1 THEN Len(hull) ELSE k - 1][1],
       hull[k][2] - hull[IF k = 1 THEN Len(hull) ELSE k - 1][2]>> : k \in 1..Len(hull)}

Smallest(S) == CHOOSE x \in S : \A y \in S : x <= y

\* The area of the bounding rectangle of a hull aligned with a direction,
\* as a fraction [n, l].
BoxArea(hull, dvec) ==
    LET xs == {mulV2V2Cw(dvec, hull[j])[1] : j \in 1..Len(hull)}
        ys == {mulV2V2Cw(dvec, hull[j])[2] : j \in 1..Len(hull)}
    IN  [n |-> (Largest(xs) - Smallest(xs)) * (Largest(ys) - Smallest(ys)),
         l |-> dvec[1] * dvec[1] + dvec[2] * dvec[2]]

\* C25: the direction fitAabb2d finds for the hull of an island is that of
\* a hull edge, no hull edge, whatever its direction, gives a bounding
\* rectangle of a smaller area, and no direction is found only for a hull
\* without an edge.
C25_MinimumAreaFit ==
    [][OrientIsland =>
          \E hull \in {convexhull2d(UvPoints(heap, collectedIslandList[1]))} :
          \E dvecBest \in {FitDirection(hull)} :
              /\ dvecBest = <<0, 0>> <=> Len(hull) = 0
              /\ dvecBest # <<0, 0>> =>
                    /\ dvecBest \in HullEdges(hull)
                    /\ \A dvec \in HullEdges(hull) :
                          ~AreaLess(BoxArea(hull, dvec), BoxArea(hull, dvecBest))]_vars

----------------------------------------------------------------------------
(* Properties of the box packer *)

\* C26: BoxPack2d finds a free space for every box: the scan of every round
\* ends at a space that is at least as wide and as high as the box.  The
\* first free space is never removed, is as wide as at the start, which is
\* at least the largest width of a box, and is unbounded, in every round.
C26_PackingNeverFails ==
    pc \in {"packing", "packed"} =>
        /\ packing.found
        /\ Len(packing.st.spaces) >= 1
        /\ packing.st.spaces[1].w = packing.startWidth
        /\ packing.st.spaces[1].unbounded
        /\ \A k \in 1..Len(packing.st.boxes) : packing.st.boxes[k].w <= packing.startWidth

\* BoxPack2d has placed MaxBoxes boxes, one of them in the first free space
\* when others were there.
C26_Witness ==
    /\ pc = "packed"
    /\ Len(packing.st.boxes) = MaxBoxes
    /\ Len(packing.st.spaces) >= 2
    /\ packing.st.spaces[1].y > packing.st.boxes[1].h

\* Two rectangles have a point in common that is on the border of neither.
Overlaps(a, aUnbounded, b, bUnbounded) ==
    /\ a.x < b.x + b.w
    /\ b.x < a.x + a.w
    /\ bUnbounded \/ a.y < b.y + b.h
    /\ aUnbounded \/ b.y < a.y + a.h

\* The free spaces are pairwise disjoint, disjoint from the first n boxes,
\* and they and the boxes are between 0 and startWidth.
FreeSpaceInvariant(st, n, startWidth) ==
    /\ \A a, b \in 1..Len(st.spaces) :
          a # b => ~Overlaps(st.spaces[a], st.spaces[a].unbounded,
                             st.spaces[b], st.spaces[b].unbounded)
    /\ \A a \in 1..Len(st.spaces) : \A b \in 1..n :
          ~Overlaps(st.spaces[a], st.spaces[a].unbounded, st.boxes[b], FALSE)
    /\ \A a \in 1..Len(st.spaces) :
          /\ 0 <= st.spaces[a].x
          /\ st.spaces[a].x + st.spaces[a].w <= startWidth
    /\ \A b \in 1..n :
          /\ 0 <= st.boxes[b].x
          /\ st.boxes[b].x + st.boxes[b].w <= startWidth

Spaces(st) == {st.spaces[a] : a \in 1..Len(st.spaces)}

\* What is left of a space to the right of a box at its top left corner,
\* and below it.
RightOf(space, box, h) ==
    [x |-> space.x + box.w, y |-> space.y, w |-> space.w - box.w, h |-> h,
     unbounded |-> FALSE]

Below(space, box) ==
    [space EXCEPT !.y = space.y + box.h,
                  !.h = IF space.unbounded THEN space.h ELSE space.h - box.h]

\* The free spaces after a box is put in the space: gone if the box fits
\* exactly, shrunk to the right if the heights are equal, shrunk downward
\* if the widths are equal, and else split into a right remainder of the
\* height of the box and a bottom remainder of full width.
Remainders(space, box) ==
    IF box.w = space.w /\ ~space.unbounded /\ box.h = space.h THEN {}
    ELSE IF ~space.unbounded /\ box.h = space.h THEN {RightOf(space, box, space.h)}
    ELSE IF box.w = space.w THEN {Below(space, box)}
    ELSE {RightOf(space, box, box.h), Below(space, box)}

\* C27: after every placement of BoxPack2d the free spaces are pairwise
\* disjoint and disjoint from every box placed so far, the free spaces and
\* the boxes are between x = 0 and x = startWidth, and the space the box was
\* put in is replaced by its remainders: none for an exact fit, the right
\* one for an equal height, the bottom one for an equal width, both else.
C27_FreeSpaces ==
    [][PlaceNextBox =>
          \E at \in {FindSpace(packing.st.spaces, Len(packing.st.spaces),
                                packing.st.boxes[packing.k])} :
              /\ at # 0
              /\ FreeSpaceInvariant(packing'.st, packing.k, packing.startWidth)
              /\ Len(packing'.st.spaces) = Cardinality(Spaces(packing'.st))
              /\ Spaces(packing'.st) =
                    (Spaces(packing.st) \ {packing.st.spaces[at]})
                        \union Remainders(packing.st.spaces[at],
                                          packing.st.boxes[packing.k])
              /\ packing'.st.boxes[packing.k].x = packing.st.spaces[at].x
              /\ packing'.st.boxes[packing.k].y = packing.st.spaces[at].y]_vars

\* BoxPack2d has placed boxes in each of the four ways: a space was
\* removed, so that fewer spaces than boxes are left, after another was
\* split.
C27_Witness ==
    /\ pc = "packed"
    /\ Len(packing.st.boxes) = MaxBoxes
    /\ Len(packing.st.spaces) = 1
    /\ packing.st.width = packing.startWidth
    /\ \E b \in 1..MaxBoxes : packing.st.boxes[b].x > 0

----------------------------------------------------------------------------
(* Properties of the face builder *)

\* C28: constructing the Faces of the meshes changes none of the inputs of
\* the constructor: the meshes, with their indices, positions, attributes
\* and world matrix, and the equivalencies, every list with the same
\* elements in the same order, are after the constructors what they were
\* before.
C28_NoSideEffect ==
    [][BuildMeshFaces => /\ obList' = obList
                         /\ equivalencies' = equivalencies]_vars

----------------------------------------------------------------------------
(* Properties of the seam resolver *)

\* The positions of the side table of mesh m that hold this uv and position.
EntriesOf(m, newUv, newPosition) ==
    {h \in 0..(Len(additionnalUvs[m]) - 1) :
        /\ UvEquals(At(additionnalUvs[m], h), newUv, pack.packMax)
        /\ At(additionnalVertices[m], h) = newPosition}

\* C29: after every step of the seam resolver no side table of a mesh
\* holds two entries with the same uv and position; and a corner whose
\* vertex has its uv written and whose uv and position are in the side
\* table gets the index of that entry, and the tables are left as they are.
C29_SeamVerticesReused ==
    [][ResolveCorner =>
          /\ \A m \in DOMAIN additionnalUvs' :
                \A h1, h2 \in 0..(Len(additionnalUvs'[m]) - 1) :
                    (/\ UvEquals(At(additionnalUvs'[m], h1), At(additionnalUvs'[m], h2),
                                  pack.packMax)
                     /\ At(additionnalVertices'[m], h1) = At(additionnalVertices'[m], h2))
                    => h1 = h2
          /\ LET f == heap[At(At(collectedIslandList, corner[1]), corner[2])]
                 k == corner[3]
                 m == f.meshIndex + 1
             IN  \A h \in EntriesOf(m, f.uv[k + 1], f.v[k + 1].v) :
                     ~Unwritten(newUvs[m], At(indices[m], f.index + k)) =>
                         /\ At(indices'[m], f.index + k) = h + NumVertices(obList[m])
                         /\ additionnalUvs' = additionnalUvs
                         /\ additionnalVertices' = additionnalVertices]_vars

\* Two corners of a mesh have the index of one appended vertex: the second
\* one found the entry of the first.
C29_Witness ==
    /\ pc \in {"seam", "done"}
    /\ \E m \in DOMAIN indices : \E p1, p2 \in DOMAIN indices[m] :
          /\ p1 # p2
          /\ indices[m][p1] = indices[m][p2]
          /\ indices[m][p1] >= NumVertices(obList[m])

----------------------------------------------------------------------------
(* Properties of getUvIslands *)

\* C30: getUvIslands, handed projection groups of which some hold no face
\* and an empty list of zero-area faces, returns: it does not throw in the
\* orientation of the islands, and every island it built holds at least one
\* face and only Faces of the heap.
C30_EmptyGroupBuildsNoIsland ==
    [][(CollectIslands /\ Len(deletedFaces) = 0) =>
          /\ pc' = "islands"
          /\ \A k \in 1..Len(collectedIslandList') :
                /\ Len(collectedIslandList'[k]) > 0
                /\ \A e \in 1..Len(collectedIslandList'[k]) :
                      collectedIslandList'[k][e] \in DOMAIN heap]_vars

====
